---- MODULE Spec2Model ----
(***************************************************************************)
(* PikPakApi (src/pikpakapi/__init__.py): the request pipeline             *)
(* (_make_request / _send_request / _handle_response / refresh_access_     *)
(* token) and the path resolver (path_to_id with _path_id_cache).          *)
(*                                                                         *)
(* The specifications of the module share its variables:                   *)
(*   Spec      the request pipeline: operations of one client that each    *)
(*             issue one logical request and interleave at the network     *)
(*             call and at the backoff sleep;                              *)
(*   SpecErr   the request pipeline with one operation, every handled      *)
(*             response recorded;                                          *)
(*   SpecAuth  the request pipeline with one operation and login;          *)
(*   SpecCtor  the constructor, encode_token and decode_token;             *)
(*   SpecCred  login and refresh_access_token called by the user;          *)
(*   SpecCaptcha  file_list, get_download_url and other operations of      *)
(*             concurrent callers, with the captcha token;                 *)
(*   SpecPage  the path resolver against a server free in its              *)
(*             continuation tokens;                                        *)
(*   SpecLegacy  the legacy clients (pikpak.PikPakAPI, PikPakApiAsync);    *)
(*   SpecPath  the path resolver: path_to_id calls issued one after the    *)
(*             other on one client against a paginated remote tree;        *)
(*   SpecNorm  the path string of path_to_id split into its segments;      *)
(*   SpecConc  two path_to_id calls running concurrently on one client;    *)
(*   SpecDrive path_to_id calls with trash, delete, rename, move, copy     *)
(*             and listing operations between them;                        *)
(*   SpecMove  file_move_or_copy_by_path;                                  *)
(*   SpecTask  offline_file_info, offline_task_retry, get_task_status.     *)
(***************************************************************************)
EXTENDS Integers, Sequences, FiniteSets, TLC

\* ------------------------------------------------------------------------
\* Bounds of the model
\* ------------------------------------------------------------------------

\* request_max_retries as configured at construction (the code's default is 3).
max_retries == 2

\* Token pairs the server hands out before it stops answering refresh requests
\* with a new pair.
MaxTokens == 2

\* Frames of _make_request alive at once, over all operations.  The code has
\* no such limit: this only keeps the model finite.
MaxFrames == 3

\* The concurrent operations on the one client.
Ops == {1, 2}

\* None, for a token or an id.
None == 0

VARIABLES
    \* ---- client fields (PikPakApi.__init__) ----
    access_token,      \* self.access_token  (None or a token number)
    refresh_token,     \* self.refresh_token
    user_id,           \* self.user_id  (None or the "sub" of a response)
    encoded_token,     \* self.encoded_token  (Absent or a bundle)
    captcha_token,     \* self.captcha_token  (None or a captcha token number)
    \* ---- request pipeline ----
    stack,             \* per operation: the frames of _make_request, outermost first
    result,            \* per operation: how its logical request ended
    issued,            \* server: the last token pair it handed out
    \* ---- history of the pipeline (read by the properties only) ----
    sends,             \* per operation: sends of its logical (outermost) request
    fails,             \* per operation: transient failures of its logical request
    obs,               \* per operation: refresh_access_token calls made between
                       \* an expired response and the successful retry of the
                       \* same request (0: no such retry yet; 2: two or more)
    lastMsg,           \* per operation: the request it sent last
    latest,            \* the access token of the refresh response processed last
    handled            \* per operation, where its responses are recorded
                       \* (on): the response to the attempt it made last
                       \* (none: it is in flight or its send failed), the
                       \* sends of the logical request by then, and the
                       \* message of the exception _handle_response raised

pipeVars == <<access_token, refresh_token, user_id, encoded_token,
              captcha_token, stack, result, issued, sends, fails, obs, lastMsg,
              latest, handled>>

\* The state of the path resolver (path_to_id).
VARIABLES
    \* ---- client field ----
    cache,             \* self._path_id_cache: key -> record
    \* ---- the remote drive ----
    children,          \* folder id (None: the root) -> its entries, in listing order
    pageSize,          \* entries on one listing page
    nextId,            \* the id the next created folder gets
    \* ---- the running path_to_id call: its locals ----
    pc,                \* "idle", "list" (awaiting file_list), "create"
                       \* (awaiting create_folder), "done"
    paths, create, path_ids, count, parent_id, next_page_token,
    req,               \* the awaited request
    \* ---- history of the calls (read by the properties only) ----
    calls,             \* path_to_id calls started
    ret,               \* how the call ended: "none", "hit", "resolved", "break", "raised"
    listed,            \* the call has issued a file_list
    created,           \* the create_folder calls of the call: <<name, parent_id>>
    honest,            \* every listing of the call was answered as the remote is
    start,             \* what held when the call started
    again,             \* the call repeats the path of the call before, which
                       \* had resolved every segment
    reply              \* the listing response handled in the last step

pathVars == <<cache, children, pageSize, nextId, pc, paths, create, path_ids,
              count, parent_id, next_page_token, req, calls, ret, listed,
              created, honest, start, again, reply>>

\* The inputs of the other operations of the client.
VARIABLES
    path,              \* the path argument of path_to_id, a string: the
                       \* sequence of its characters
    mv,                \* the running file_move_or_copy_by_path call: its
                       \* arguments, its locals and the request it submits
    task,              \* the running operation on offline tasks: its
                       \* arguments, its locals and how it ended
    procs,             \* per concurrent caller of path_to_id: its locals
    fileOps,           \* file operations other than path_to_id called so far
    ctor,              \* the arguments PikPakApi is constructed with and how
                       \* the construction ended
    cred,              \* the running login or refresh_access_token call made
                       \* by the user of the client
    caps,              \* per concurrent caller: its running file_list,
                       \* get_download_url or other operation
    legacy             \* the running operation of a legacy client
                       \* (pikpak.PikPakAPI, PikPakApiAsync)

otherVars == <<path, mv, task, procs, fileOps, ctor, cred, caps, legacy>>

vars == <<pipeVars, pathVars, otherVars>>

\* ------------------------------------------------------------------------
\* Responses of the server, as _handle_response tells them apart
\* ------------------------------------------------------------------------

\* body: "json" (a non-empty JSON object), "empty" (no JSON / empty object);
\* status: 200 or another one; error: the "error" field ("none": absent);
\* code: the "error_code" field (0: absent or another value);
\* error_description: that field ("none": absent).
Response(body, status, error, code) ==
    [body |-> body, status |-> status, error |-> error, code |-> code,
     error_description |-> "none"]

Responses ==
    { Response("empty", s, "none", 0) : s \in {200, 500} }
    \cup { Response("json", 200, e, c) :
             e \in {"none", "invalid_account_or_password", "other"},
             c \in {0, 16} }
    \cup { [Response("json", 200, "other", c)
              EXCEPT !.error_description = "file not found"] : c \in {0, 16} }

\* No response: the send itself failed, or nothing was sent yet.
NoResponse == Response("none", 0, "none", 0)

\* _handle_response with the test of lines 206-208 (error_code 16) moved
\* before the test of lines 203-204 (invalid_account_or_password).
_handle_response_expiry_first(r) ==
    IF r.body = "empty"
    THEN IF r.status = 200 THEN "return_empty" ELSE "retry"
    ELSE IF r.error = "none" THEN "return"
    ELSE IF r.code = 16 THEN "refresh"
    ELSE "fatal"

\* PikPakApi._handle_response: what it does with a response.
\*   "return"      the payload goes back to the caller (json_data)
\*   "return_empty" {} goes back to the caller
\*   "retry"       PikpakRetryException("Empty JSON data")
\*   "fatal"       PikpakException
\*   "refresh"     await refresh_access_token(), then PikpakRetryException
_handle_response(r) ==
    IF r.body = "empty"
    THEN IF r.status = 200 THEN "return_empty" ELSE "retry"
    ELSE IF r.error = "none" THEN "return"
    ELSE IF r.error = "invalid_account_or_password" THEN "fatal"
    ELSE IF r.code = 16 THEN "refresh"
    ELSE "fatal"

\* ErrorMessage without json_data.get("error_description", ...) at line 210.
ErrorMessage_unknown(r) ==
    IF r.body = "empty"
    THEN IF r.status = 200 THEN "" ELSE "Empty JSON data"
    ELSE IF r.error = "none" THEN ""
    ELSE IF r.error = "invalid_account_or_password"
         THEN "Invalid username or password"
    ELSE IF r.code = 16 THEN "Token refreshed, please retry"
    ELSE "Unknown Error"

\* The message of the exception _handle_response raises for a response
\* ("": it raises none).
ErrorMessage(r) ==
    IF r.body = "empty"
    THEN IF r.status = 200 THEN "" ELSE "Empty JSON data"
    ELSE IF r.error = "none" THEN ""
    ELSE IF r.error = "invalid_account_or_password"
         THEN "Invalid username or password"
    ELSE IF r.code = 16 THEN "Token refreshed, please retry"
    ELSE IF r.error_description # "none" THEN r.error_description
    ELSE "Unknown Error"

\* ------------------------------------------------------------------------
\* Frames of _make_request
\* ------------------------------------------------------------------------

\* One activation of _make_request.  kind: "api" (the operation's own
\* request), "login" (the sign-in request of login) or "refresh" (the request
\* of refresh_access_token); attempt: the loop index
\* of `for attempt in range(self.max_retries)`; pc: "await" (the request is
\* sent, the response awaited) or "sleep" (in asyncio.sleep after a failed
\* attempt); headers: the caller's headers argument (<<>>: none, <<h>>: the
\* headers h); since: the refresh_access_token calls the operation
\* has made since the last response of this request, if that response reported
\* expiry (0: it did not; counted up to 2); delay: the argument of the
\* asyncio.sleep the frame is in (0: it is in none).
Frame(kind) ==
    [kind |-> kind, attempt |-> 0, pc |-> "await", headers |-> <<>>,
     since |-> 0, delay |-> 0]

\* request_initial_backoff as configured at construction, in seconds (the
\* code's default, line 58).
initial_backoff == 3

\* Line 172 with the initial backoff at every attempt.
Backoff_constant(attempt) == initial_backoff

\* Line 172: self.initial_backoff * (2**attempt).
Backoff(attempt) == initial_backoff * (2 ^ attempt)

\* One more refresh_access_token call, counted in every frame that waits for
\* a retry after an expired response.
CountRefresh(frames) ==
    [i \in DOMAIN frames |->
        IF frames[i].since = 1 THEN [frames[i] EXCEPT !.since = 2] ELSE frames[i]]

RECURSIVE SumLen(_)
SumLen(S) ==
    IF S = {} THEN 0
    ELSE LET o == CHOOSE x \in S : TRUE IN Len(stack[o]) + SumLen(S \ {o})

TotalFrames == SumLen(Ops)

Top(o) == stack[o][Len(stack[o])]

Depth(o) == Len(stack[o])

\* PikPakApi.get_headers: the Authorization header is built from
\* self.access_token and the X-Captcha-Token header from self.captcha_token
\* (None: no such header), as they are when the headers are built.
get_headers ==
    [Authorization |-> IF access_token # None THEN access_token ELSE None,
     X_Captcha_Token |-> IF captcha_token # None THEN captcha_token ELSE None]

\* PikPakApi._send_request: `req_headers = headers or self.get_headers()`,
\* evaluated at every send.  The message keeps, for the properties, whether the
\* headers were the caller's (own) and the access token of the refresh response
\* processed last before the send (latest).
_send_request(f) ==
    [kind |-> f.kind,
     headers |-> IF f.headers # <<>> THEN f.headers[1] ELSE get_headers,
     own |-> f.headers # <<>>,
     latest |-> latest]

NoMsg == [kind |-> "none", headers |-> [Authorization |-> None], own |-> FALSE,
          latest |-> None]

\* The frame f with one more send counted for the operation's own request.
CountSend(o, depth) ==
    IF depth = 1 THEN [sends EXCEPT ![o] = @ + 1] ELSE sends

CountFail(o, depth) ==
    IF depth = 1 THEN [fails EXCEPT ![o] = @ + 1] ELSE fails

\* What `handled` keeps of the attempt an operation made last.  The record
\* is kept only where it is switched on at the start (specification SpecErr).
NoHandled(on) == [on |-> on, r |-> NoResponse, at |-> 0, msg |-> ""]

Handle(o, r) ==
    IF handled[o].on
    THEN [handled EXCEPT ![o] = [on |-> TRUE, r |-> r, at |-> sends[o],
                                 msg |-> ErrorMessage(r)]]
    ELSE handled

Unhandle(o) == [handled EXCEPT ![o] = NoHandled(@.on)]

\* ------------------------------------------------------------------------
\* The exported credential bundle: self.encoded_token
\* ------------------------------------------------------------------------

\* An encoded_token argument, by what its decoding meets: b64 -- "ok",
\* "bad" (not base64: binascii.Error) or "not_ascii" (a str with a character
\* outside ASCII: ValueError); utf8 -- whether the decoded bytes are UTF-8;
\* json -- "object", "other" (a list, a number, a string, null) or "invalid"
\* (no JSON text); access_token, refresh_token -- the values of the object's
\* keys (None: the key is absent, null or "").  Absent stands for None and "".
Bundle(b64, utf8, js, a, r) ==
    [b64 |-> b64, utf8 |-> utf8, json |-> js, access_token |-> a,
     refresh_token |-> r]

Absent == Bundle("absent", FALSE, "invalid", None, None)

EncodedTokens ==
    { Absent, Bundle("bad", FALSE, "invalid", None, None),
      Bundle("not_ascii", FALSE, "invalid", None, None),
      Bundle("ok", FALSE, "invalid", None, None),
      Bundle("ok", TRUE, "invalid", None, None),
      Bundle("ok", TRUE, "other", None, None) }
    \cup { Bundle("ok", TRUE, "object", a, r) : a \in {None, 1, 2}, r \in {None, 1, 2} }

\* encode_token with token_data holding the access token only.
encode_token_access_only(a, r) == Bundle("ok", TRUE, "object", a, None)

\* PikPakApi.encode_token: base64 of the JSON object of the two tokens.
encode_token(a, r) == Bundle("ok", TRUE, "object", a, r)

\* ------------------------------------------------------------------------
\* Initial state: a client built from an encoded_token (tokens 1/1) or from
\* username and password without a login yet (no tokens).
\* ------------------------------------------------------------------------
PipeInit ==
    /\ \E t \in {None, 1} :
          /\ access_token = t /\ refresh_token = t /\ issued = t
          /\ encoded_token = IF t = None THEN Absent ELSE encode_token(t, t)
    /\ user_id = None
    /\ captcha_token = None
    /\ stack = [o \in Ops |-> <<>>]
    /\ result = [o \in Ops |-> "idle"]
    /\ sends = [o \in Ops |-> 0]
    /\ fails = [o \in Ops |-> 0]
    /\ obs = [o \in Ops |-> 0]
    /\ lastMsg = [o \in Ops |-> NoMsg]
    /\ latest = None
    /\ \E on \in BOOLEAN : handled = [o \in Ops |-> NoHandled(on)]

\* ------------------------------------------------------------------------
\* The request pipeline.  Every action runs from one suspension point (the
\* awaited httpx request, the awaited asyncio.sleep) to the next one.
\* ------------------------------------------------------------------------

\* An operation calls _make_request (through _request_get/_request_post
\* without headers): attempt 0 is sent.
Call(o) ==
    /\ result[o] = "idle"
    /\ TotalFrames < MaxFrames
    /\ max_retries > 0
    /\ LET f == Frame("api") IN
        /\ stack' = [stack EXCEPT ![o] = <<f>>]
        /\ lastMsg' = [lastMsg EXCEPT ![o] = _send_request(f)]
    /\ result' = [result EXCEPT ![o] = "running"]
    /\ sends' = [sends EXCEPT ![o] = 1]
    /\ UNCHANGED <<access_token, refresh_token, user_id, encoded_token,
                   captcha_token, issued, fails, obs, latest,
                   handled>>
    /\ UNCHANGED <<pathVars, otherVars>>

\* What the properties keep of a request that succeeded at last: the number
\* of refresh_access_token calls of the operation since the expired response
\* that preceded the successful attempt.
Observe(o, f) ==
    IF f.since > 0 THEN [obs EXCEPT ![o] = f.since] ELSE obs

\* The frame below the returning refresh frame: its _handle_response raises
\* PikpakRetryException("Token refreshed, please retry") (or lets the
\* exception of refresh_access_token through to `except Exception`), and
\* _make_request goes to its asyncio.sleep.
OuterSleeps(o) ==
    LET d == Depth(o) IN
    [stack EXCEPT ![o] = [SubSeq(@, 1, d - 1) EXCEPT
                            ![d - 1].pc = "sleep",
                            ![d - 1].delay = Backoff(stack[o][d - 1].attempt)]]

\* login sends its sign-in request with headers of its own (lines 314-330;
\* the captcha_init request before it leaves the client's fields alone).
login(o) ==
    /\ result[o] = "idle"
    /\ TotalFrames < MaxFrames
    /\ max_retries > 0
    /\ LET f == [Frame("login") EXCEPT !.headers = << [Authorization |-> None] >>] IN
        /\ stack' = [stack EXCEPT ![o] = <<f>>]
        /\ lastMsg' = [lastMsg EXCEPT ![o] = _send_request(f)]
    /\ result' = [result EXCEPT ![o] = "running"]
    /\ sends' = [sends EXCEPT ![o] = 1]
    /\ UNCHANGED <<access_token, refresh_token, user_id, encoded_token,
                   captcha_token, issued, fails, obs, latest,
                   handled>>
    /\ UNCHANGED <<pathVars, otherVars>>

\* Every caller of _make_request takes the token fields from the payload.
Stores_any(kind) == TRUE

\* The callers of _make_request that assign access_token, refresh_token and
\* user_id from the payload it returns: login, lines 331-333
\* (refresh_access_token, lines 349-351, is RefreshDone).
Stores(kind) == kind = "login"

\* The request of the operation itself is answered without an "error" field
\* (or with an empty body and status 200): _handle_response returns, and so
\* does _make_request.  login stores the token pair and the user id of the
\* payload; on {} its user_info["access_token"] raises KeyError.
ReplyOk(o) ==
    /\ Depth(o) = 1
    /\ Top(o).pc = "await"
    /\ \E r \in Responses :
          /\ _handle_response(r) \in {"return", "return_empty"}
          /\ handled' = Handle(o, r)
          /\ IF ~Stores(Top(o).kind)
             THEN /\ result' = [result EXCEPT ![o] = "ok"]
                  /\ UNCHANGED <<access_token, refresh_token, user_id,
                                 encoded_token, issued>>
             ELSE IF _handle_response(r) = "return"
             THEN /\ issued < MaxTokens
                  /\ LET user_info == [access_token |-> issued + 1,
                                       refresh_token |-> issued + 1,
                                       sub |-> "user"]
                     IN  /\ access_token' = user_info.access_token
                         /\ refresh_token' = user_info.refresh_token
                         /\ user_id' = user_info.sub
                         /\ encoded_token' = encode_token(user_info.access_token,
                                                          user_info.refresh_token)
                  /\ issued' = issued + 1
                  /\ result' = [result EXCEPT ![o] = "ok"]
             ELSE /\ result' = [result EXCEPT ![o] = "key_error"]
                  /\ UNCHANGED <<access_token, refresh_token, user_id,
                                 encoded_token, issued>>
    /\ stack' = [stack EXCEPT ![o] = <<>>]
    /\ obs' = Observe(o, Top(o))
    /\ UNCHANGED <<captcha_token, sends, fails, lastMsg, latest>>
    /\ UNCHANGED <<pathVars, otherVars>>

\* refresh_access_token as it would be without line 349: the new access token
\* is not stored.
refresh_access_token_keeps_access(user_info) ==
    [access_token |-> access_token,
     refresh_token |-> user_info.refresh_token]

\* PikPakApi.refresh_access_token, lines 349-350: the token pair of the
\* response replaces the stored one.
refresh_access_token(user_info) ==
    [access_token |-> user_info.access_token,
     refresh_token |-> user_info.refresh_token]

\* The refresh request is answered with a new token pair: refresh_access_token
\* stores it and returns; the frame below raises the retry signal.
RefreshDone(o) ==
    /\ Depth(o) > 1
    /\ Top(o).pc = "await"
    /\ \E r \in Responses :
          /\ _handle_response(r) = "return"
          /\ handled' = Handle(o, r)
    /\ issued < MaxTokens
    /\ LET user_info == [access_token |-> issued + 1,
                         refresh_token |-> issued + 1,
                         sub |-> "user"]
           new == refresh_access_token(user_info)
       IN  /\ access_token' = new.access_token
           /\ refresh_token' = new.refresh_token
           /\ user_id' = user_info.sub
           /\ encoded_token' = encode_token(new.access_token, new.refresh_token)
           /\ latest' = user_info.access_token
    /\ issued' = issued + 1
    /\ stack' = OuterSleeps(o)
    /\ fails' = CountFail(o, Depth(o) - 1)
    /\ obs' = Observe(o, Top(o))
    /\ UNCHANGED <<captcha_token, result, sends, lastMsg>>
    /\ UNCHANGED <<pathVars, otherVars>>

\* The refresh response lacks a key that lines 349-351 read: KeyError, which
\* the frame below catches with `except Exception`.  An empty body with
\* status 200 ({} from _handle_response) fails at line 349 and stores nothing;
\* a body with "access_token" but without "refresh_token" fails at line 350,
\* after line 349 has stored the access token; user_id stays as it was.
RefreshKeyError(o) ==
    /\ Depth(o) > 1
    /\ Top(o).pc = "await"
    /\ \/ /\ \E r \in Responses :
                /\ _handle_response(r) = "return_empty"
                /\ handled' = Handle(o, r)
          /\ UNCHANGED <<access_token, issued, latest>>
       \/ /\ \E r \in Responses :
                /\ _handle_response(r) = "return"
                /\ handled' = Handle(o, r)
          /\ issued < MaxTokens
          /\ LET user_info == [access_token |-> issued + 1,
                               refresh_token |-> refresh_token]
             IN  /\ access_token' = refresh_access_token(user_info).access_token
                 /\ latest' = user_info.access_token
          /\ issued' = issued + 1
    /\ stack' = OuterSleeps(o)
    /\ fails' = CountFail(o, Depth(o) - 1)
    /\ UNCHANGED <<refresh_token, user_id, encoded_token, captcha_token, result,
                   sends, obs, lastMsg>>
    /\ UNCHANGED <<pathVars, otherVars>>

\* error_code 16: _handle_response awaits refresh_access_token, which builds
\* refresh_data from the stored refresh token and sends its own request
\* through _make_request.
ReplyExpired(o) ==
    /\ Depth(o) >= 1
    /\ Top(o).pc = "await"
    /\ TotalFrames < MaxFrames
    /\ max_retries > 0
    /\ \E r \in Responses :
          /\ _handle_response(r) = "refresh"
          /\ handled' = Handle(o, r)
    /\ LET d == Depth(o)
           f == Frame("refresh")
       IN  /\ stack' = [stack EXCEPT ![o] =
                          Append([CountRefresh(@) EXCEPT ![d].since = 1], f)]
           /\ lastMsg' = [lastMsg EXCEPT ![o] = _send_request(f)]
    /\ UNCHANGED <<access_token, refresh_token, user_id, encoded_token,
                   captcha_token, issued, result, sends, fails,
                   obs, latest>>
    /\ UNCHANGED <<pathVars, otherVars>>

\* How the logical request ended when the frame at `depth` raised a
\* PikpakException: every frame below re-raises it (`except PikpakException:
\* raise`).
Raised(depth, why) == IF depth = 1 THEN why ELSE "refresh_failed"

\* "invalid_account_or_password" or any other error that is not expiry:
\* PikpakException, not retried.
ReplyFatal(o) ==
    /\ Depth(o) >= 1
    /\ Top(o).pc = "await"
    /\ \E r \in Responses :
          /\ _handle_response(r) = "fatal"
          /\ handled' = Handle(o, r)
    /\ stack' = [stack EXCEPT ![o] = <<>>]
    /\ result' = [result EXCEPT ![o] = Raised(Depth(o), "fatal")]
    /\ UNCHANGED <<access_token, refresh_token, user_id, encoded_token,
                   captcha_token, issued, sends, fails,
                   obs, lastMsg, latest>>
    /\ UNCHANGED <<pathVars, otherVars>>

\* The attempt failed without ending the request: _make_request records
\* last_error and goes to its asyncio.sleep.
AttemptFails(o) ==
    /\ LET d == Depth(o) IN
       stack' = [stack EXCEPT ![o] =
                   [@ EXCEPT ![d].pc = "sleep", ![d].since = 0,
                             ![d].delay = Backoff(Top(o).attempt)]]
    /\ fails' = CountFail(o, Depth(o))
    /\ UNCHANGED <<access_token, refresh_token, user_id, encoded_token,
                   captcha_token, issued, result, sends,
                   obs, lastMsg, latest>>
    /\ UNCHANGED <<pathVars, otherVars>>

\* An empty body with another status than 200: PikpakRetryException.
ReplyRetry(o) ==
    /\ Depth(o) >= 1
    /\ Top(o).pc = "await"
    /\ \E r \in Responses :
          /\ _handle_response(r) = "retry"
          /\ handled' = Handle(o, r)
    /\ AttemptFails(o)

\* The send raises httpx.HTTPError (timeout, connection error).
SendFails(o) ==
    /\ Depth(o) >= 1
    /\ Top(o).pc = "await"
    /\ handled' = Unhandle(o)
    /\ AttemptFails(o)

\* The loop as `range(self.max_retries + 1)` would run it.
HasNextAttempt_one_more(attempt) == attempt + 1 <= max_retries

\* `for attempt in range(self.max_retries)`: whether the loop has another
\* iteration after the one with index `attempt`.
HasNextAttempt(attempt) == attempt + 1 < max_retries

\* asyncio.sleep is over and the loop has another iteration: the request is
\* sent again.
WakeRetry(o) ==
    /\ Depth(o) >= 1
    /\ Top(o).pc = "sleep"
    /\ HasNextAttempt(Top(o).attempt)
    /\ LET d == Depth(o)
           f == [Top(o) EXCEPT !.attempt = @ + 1, !.pc = "await", !.delay = 0]
       IN  /\ stack' = [stack EXCEPT ![o] = [@ EXCEPT ![d] = f]]
           /\ lastMsg' = [lastMsg EXCEPT ![o] = _send_request(f)]
           /\ sends' = CountSend(o, d)
    /\ handled' = Unhandle(o)
    /\ UNCHANGED <<access_token, refresh_token, user_id, encoded_token,
                   captcha_token, issued, result, fails,
                   obs, latest>>
    /\ UNCHANGED <<pathVars, otherVars>>

\* asyncio.sleep is over and the loop is exhausted:
\* PikpakException("Max retries reached ...").
WakeExhausted(o) ==
    /\ Depth(o) >= 1
    /\ Top(o).pc = "sleep"
    /\ ~HasNextAttempt(Top(o).attempt)
    /\ stack' = [stack EXCEPT ![o] = <<>>]
    /\ result' = [result EXCEPT ![o] = Raised(Depth(o), "max_retries")]
    /\ UNCHANGED <<access_token, refresh_token, user_id, encoded_token,
                   captcha_token, issued, sends, fails,
                   obs, lastMsg, latest, handled>>
    /\ UNCHANGED <<pathVars, otherVars>>

PipeStep(o) ==
        \/ Call(o)
        \/ ReplyOk(o)
        \/ RefreshDone(o)
        \/ RefreshKeyError(o)
        \/ ReplyExpired(o)
        \/ ReplyFatal(o)
        \/ ReplyRetry(o)
        \/ SendFails(o)
        \/ WakeRetry(o)
        \/ WakeExhausted(o)

PipeNext == \E o \in Ops : PipeStep(o)

\* No operation records its responses.
Unrecorded == \A o \in Ops : ~handled[o].on

\* ========================================================================
\* The path resolver: PikPakApi.path_to_id and _path_id_cache
\* ========================================================================

\* Longest path handed to path_to_id, in segments.
MaxDepth == 3

\* path_to_id calls made one after the other on the client.
MaxCalls == 2

\* Names of remote entries and of path segments: the folders of the remote
\* chain /a/b/a/... are named ChainName(1), ChainName(2), ...; OtherName(i) is
\* the other name at depth i.
ChainName(i) == IF i % 2 = 1 THEN "a" ELSE "b"

OtherName(i) == IF i % 2 = 1 THEN "b" ELSE "a"

\* The paths handed to path_to_id, as their segments: "/a/b" is <<"a", "b">>.
\* They run down the chain and end in the chain's name or in the other one.
\* A cache key "/" + "/".join(segments) is modelled by the segments too (no
\* name holds a "/").
Paths ==
    { [i \in 1..n |-> IF i < n \/ last THEN ChainName(i) ELSE OtherName(i)] :
        n \in 1..MaxDepth, last \in BOOLEAN }

\* ------------------------------------------------------------------------
\* The remote drive
\* ------------------------------------------------------------------------

Entry(id, name, kind) == [id |-> id, name |-> name, kind |-> kind]

\* The remote trees of the model: the folders /a (id 1), /a/b (id 2) and
\* /a/b/a (id 3) exist down to depth `deep`; with `files`, each of them is
\* listed after a file of the other name (ids 11, 12, 13).
Listing(i, deep, files) ==
    (IF files /\ i <= deep + 1 THEN <<Entry(10 + i, OtherName(i), "drive#file")>> ELSE <<>>)
    \o (IF i <= deep THEN <<Entry(i, ChainName(i), "drive#folder")>> ELSE <<>>)

\* children of the root (None) are listing 1, of folder i listing i + 1.
RemoteTree(deep, files) ==
    [p \in 0..deep |-> Listing(p + 1, deep, files)]

ChildrenOf(ch, p) == IF p \in DOMAIN ch THEN ch[p] ELSE <<>>

Min(x, y) == IF x < y THEN x ELSE y

\* A continuation token: opaque to the client, which hands it back and
\* compares it; to the server the listing it belongs to and the page it
\* continues with.  NoToken: no (or an empty) next_page_token.
NoToken == <<>>

Token(parent, page) == <<parent, page>>

NumPages(entries, size) == (Len(entries) + size - 1) \div size

\* The server's page `page` (1, 2, ...) of the listing of `parent` and the
\* continuation token that goes with it (NoToken after the last page).
PageOf(ch, parent, size, page) ==
    LET entries == ChildrenOf(ch, parent) IN
    [files |-> SubSeq(entries, (page - 1) * size + 1, Min(page * size, Len(entries))),
     next_page_token |-> IF page * size < Len(entries)
                         THEN Token(parent, page + 1) ELSE NoToken]

\* ------------------------------------------------------------------------
\* path_to_id
\* ------------------------------------------------------------------------

\* multi_level_paths: the key of the first i segments.
Prefix(ps, i) == SubSeq(ps, 1, i)

\* The cache probe as it would be with an empty list in place of lines
\* 609-613: no prefix is looked up.
CacheHits_none(c, ps, i) == <<>>

\* path_ids = [cache[p] for p in multi_level_paths if p in cache]
RECURSIVE CacheHits(_, _, _)
CacheHits(c, ps, i) ==
    IF i > Len(ps) THEN <<>>
    ELSE (IF Prefix(ps, i) \in DOMAIN c THEN <<c[Prefix(ps, i)]>> ELSE <<>>)
         \o CacheHits(c, ps, i + 1)

\* file_type of a listed entry: "folder" iff its kind contains "folder".
FileType(kind) == IF kind = "drive#folder" THEN "folder" ELSE "file"

Record(f) == [id |-> f.id, name |-> f.name, file_type |-> FileType(f.kind)]

NoRecord == [id |-> None, name |-> "", file_type |-> "none"]

\* A listing with one cache record per listed name (the last entry of the
\* name) and nothing of the cache as it was: line 641 on a dict made anew.
ScanCache_fresh(c, prefix, files) ==
    [k \in { Append(prefix, files[i].name) : i \in DOMAIN files } |->
        Record(files[CHOOSE i \in DOMAIN files :
                        /\ Append(prefix, files[i].name) = k
                        /\ \A j \in DOMAIN files :
                              Append(prefix, files[j].name) = k => j <= i])]

\* The for loop as it would be with a break after its first iteration: the
\* first entry of the page is cached, the others are not.
ScanCache_first_only(c, prefix, files) ==
    IF files = <<>> THEN c
    ELSE (Append(prefix, Head(files).name) :> Record(Head(files))) @@ c

\* The for loop as it would be with paths[: count + 1] in line 631: the keys
\* are built below the target segment, resolved or not.
ScanCache_next_slice(c, prefix, files) ==
    ScanCache_fresh(c, Prefix(paths, Len(prefix) + 1), files) @@ c

\* The loop without line 641: nothing is written to the cache.
ScanCache_no_write(c, prefix, files) == c

\* The for loop over data["files"]: every entry is cached under the key of
\* the resolved segments plus its name.
RECURSIVE ScanCache(_, _, _)
ScanCache(c, prefix, files) ==
    IF files = <<>> THEN c
    ELSE LET f == Head(files) IN
         ScanCache((Append(prefix, f.name) :> Record(f)) @@ c, prefix, Tail(files))

\* The for loop without the test of line 642: the record of the last listed
\* entry, whatever its name.
ScanMatch_last_entry(files, name, found) ==
    IF files = <<>> THEN found ELSE Record(files[Len(files)])

\* record_of_target_path: the record of the last listed entry named like the
\* target segment, NoRecord when there is none.
RECURSIVE ScanMatch(_, _, _)
ScanMatch(files, name, found) ==
    IF files = <<>> THEN found
    ELSE LET f == Head(files) IN
         ScanMatch(Tail(files), name, IF f.name = name THEN Record(f) ELSE found)

\* The remote ids of the leading segments of ps that exist on the drive, from
\* the root down (what a resolution of ps against the drive itself yields).
RECURSIVE RemoteChain(_, _, _, _)
RemoteChain(ch, ps, i, parent) ==
    IF i > Len(ps) THEN <<>>
    ELSE LET hit == { k \in DOMAIN ChildrenOf(ch, parent) :
                        ChildrenOf(ch, parent)[k].name = ps[i] }
         IN  IF hit = {} THEN <<>>
             ELSE LET k == CHOOSE x \in hit : \A y \in hit : x <= y
                      id == ChildrenOf(ch, parent)[k].id
                  IN  <<id>> \o RemoteChain(ch, ps, i + 1, id)

NoReq == [op |-> "none", parent_id |-> None, next_page_token |-> NoToken,
          name |-> ""]

ListReq(parent, token) ==
    [op |-> "file_list", parent_id |-> parent, next_page_token |-> token,
     name |-> ""]

CreateReq(name, parent) ==
    [op |-> "create_folder", parent_id |-> parent, next_page_token |-> NoToken,
     name |-> name]

\* What the properties keep of a listing response: the token the request
\* carried, the token of the response, whether an entry matched the target,
\* the entries of the page and the key of the folder listed.
NoReply == [seen |-> FALSE, sent |-> NoToken, token |-> NoToken, match |-> FALSE,
            files |-> <<>>, prefix |-> <<>>]

\* The remote trees and page sizes the model starts from.
PathInit ==
    /\ cache = <<>>
    /\ \E deep \in 0..MaxDepth, files \in BOOLEAN :
          children = RemoteTree(deep, files)
    /\ pageSize \in {1, 2}
    /\ nextId = 21
    /\ pc = "idle"
    /\ paths = <<>>
    /\ create = FALSE
    /\ path_ids = <<>>
    /\ count = 0
    /\ parent_id = None
    /\ next_page_token = NoToken
    /\ req = NoReq
    /\ calls = 0
    /\ ret = "none"
    /\ listed = FALSE
    /\ created = <<>>
    /\ honest = TRUE
    /\ start = [cold |-> TRUE, remote |-> <<>>, agree |-> TRUE]
    /\ again = FALSE
    /\ reply = NoReply

\* path_to_id returns (or raises): its locals are gone.
Return(how) ==
    /\ pc' = "done"
    /\ ret' = how
    /\ req' = NoReq
    /\ count' = 0
    /\ parent_id' = None
    /\ next_page_token' = NoToken

\* `while count < len(paths)`: the next file_list is awaited, or the loop is
\* over and path_ids is returned.
WhileLoop(ps, c, parent, token) ==
    IF c < Len(ps)
    THEN /\ pc' = "list"
         /\ req' = ListReq(parent, token)
         /\ count' = c
         /\ parent_id' = parent
         /\ next_page_token' = token
         /\ listed' = TRUE
         /\ ret' = "none"
    ELSE /\ Return("resolved")
         /\ listed' = listed

\* path_to_id(path, create) up to its first suspension point: the cache is
\* probed for every prefix; a full hit returns at once.
PathCall(ps, cr) ==
    /\ pc \in {"idle", "done"}
    /\ calls < MaxCalls
    /\ calls' = calls + 1
    /\ paths' = ps
    /\ create' = cr
    /\ start' = [cold |-> DOMAIN cache = {},
                 remote |-> RemoteChain(children, ps, 1, None),
                 agree |-> LET hits == CacheHits(cache, ps, 1)
                               remote == RemoteChain(children, ps, 1, None)
                           IN  /\ Len(hits) <= Len(remote)
                               /\ \A i \in 1..Len(hits) :
                                      hits[i].id = remote[i]]
    /\ created' = <<>>
    /\ honest' = TRUE
    /\ again' = (pc = "done" /\ ret \in {"hit", "resolved"} /\ ps = paths)
    /\ reply' = NoReply
    /\ LET hits == CacheHits(cache, ps, 1)
           hit_cnt == Len(hits)
       IN  /\ path_ids' = hits
           /\ IF hit_cnt = Len(ps)
              THEN /\ Return("hit")
                   /\ listed' = FALSE
              ELSE /\ count' = hit_cnt
                   /\ parent_id' = IF hit_cnt = 0 THEN None ELSE hits[hit_cnt].id
                   /\ next_page_token' = NoToken
                   /\ pc' = "list"
                   /\ req' = ListReq(parent_id', NoToken)
                   /\ listed' = TRUE
                   /\ ret' = "none"
    /\ UNCHANGED <<cache, children, pageSize, nextId>>
    /\ UNCHANGED <<pipeVars, otherVars>>

\* Lines 649-651 without the comparison of the two tokens.
MorePages_any_token(sent, got) == got # NoToken

\* Lines 649-651: whether the loop goes on to the next page, given the token
\* it sent and the token of the response.
MorePages(sent, got) == got # NoToken /\ (sent = NoToken \/ sent # got)

\* Line 653 as `else`: the create flag is not looked at.
WantCreate_always(cr) == TRUE

\* Line 653: whether a missing segment is created.
WantCreate(cr) == cr

\* Lines 645-648: the continuation token kept when resolution moves on to the
\* segment below (the code assigns count and parent_id only).
TokenAfterMatch(token) == token

\* The pages the server may answer a file_list request with.  A token that
\* this parent's listing returned continues with its page.  A token of
\* another listing is outside the server's contract: the answer may be any
\* page of this listing, or a page after its last one (no entries).
PagesFor(ch, size, r) ==
    IF r.next_page_token = NoToken THEN {1}
    ELSE IF r.next_page_token[1] = r.parent_id THEN {r.next_page_token[2]}
    ELSE 1..(NumPages(ChildrenOf(ch, r.parent_id), size) + 1)

\* What file_list may return for the request r: a page of the listing with
\* its continuation token (answered as the remote is); the page with the
\* token of the request once more; or {} (an empty body with status 200, which
\* _handle_response returns as {}), where data.get("files", []) is empty
\* and there is no token.
TruePages(ch, size, r) ==
    { PageOf(ch, r.parent_id, size, pg) : pg \in PagesFor(ch, size, r) }

ListResponses(ch, size, r) ==
    TruePages(ch, size, r)
    \cup { [d EXCEPT !.next_page_token = r.next_page_token] :
             d \in { x \in TruePages(ch, size, r) : r.next_page_token # NoToken } }
    \cup { [files |-> <<>>, next_page_token |-> NoToken] }

\* file_list returns the page `data`: lines 630-667, to the next suspension
\* point.
ListReplyWith(data) ==
    /\ pc = "list"
    /\ LET files == data.files
           got == data.next_page_token
           target == paths[count + 1]
           record_of_target_path == ScanMatch(files, target, NoRecord)
       IN
       /\ honest' = (honest /\ data \in TruePages(children, pageSize, req))
       /\ reply' = [seen |-> TRUE, sent |-> req.next_page_token, token |-> got,
                    match |-> record_of_target_path # NoRecord,
                    files |-> files, prefix |-> Prefix(paths, count)]
       /\ cache' = ScanCache(cache, Prefix(paths, count), files)
       /\ IF record_of_target_path # NoRecord
          THEN /\ path_ids' = Append(path_ids, record_of_target_path)
               /\ created' = created
               /\ WhileLoop(paths, count + 1, record_of_target_path.id,
                            TokenAfterMatch(next_page_token))
          ELSE IF MorePages(next_page_token, got)
          THEN /\ UNCHANGED <<path_ids, created>>
               /\ WhileLoop(paths, count, parent_id, got)
          ELSE IF WantCreate(create)
          THEN /\ pc' = "create"
               /\ req' = CreateReq(target, parent_id)
               /\ created' = Append(created, <<target, parent_id>>)
               /\ ret' = "none"
               /\ UNCHANGED <<path_ids, count, parent_id, next_page_token,
                              listed>>
          ELSE /\ Return("break")
               /\ UNCHANGED <<path_ids, listed, created>>
    /\ UNCHANGED <<children, pageSize, nextId, paths, create, calls, start,
                   again>>
    /\ UNCHANGED <<pipeVars, otherVars>>

\* file_list returns one of the pages the server may answer with.
ListReply ==
    \E data \in ListResponses(children, pageSize, req) : ListReplyWith(data)

\* The awaited file_list or create_folder raises PikpakException (the
\* request pipeline gave up): path_to_id lets it through.
RequestRaises ==
    /\ pc \in {"list", "create"}
    /\ Return("raised")
    /\ reply' = NoReply
    /\ UNCHANGED <<cache, children, pageSize, nextId, paths, create, path_ids,
                   calls, listed, created, honest, start, again>>
    /\ UNCHANGED <<pipeVars, otherVars>>

\* create_folder returns the new folder: lines 655-665, to the next
\* suspension point.
CreateReply ==
    /\ pc = "create"
    /\ LET file_id == nextId
           record == [id |-> file_id, name |-> req.name, file_type |-> "folder"]
       IN
       /\ children' = (file_id :> <<>>) @@
              [p \in DOMAIN children \cup {req.parent_id} |->
                  IF p = req.parent_id
                  THEN Append(ChildrenOf(children, p),
                              Entry(file_id, req.name, "drive#folder"))
                  ELSE children[p]]
       /\ nextId' = nextId + 1
       /\ path_ids' = Append(path_ids, record)
       /\ cache' = (Prefix(paths, count + 1) :> record) @@ cache
       /\ WhileLoop(paths, count + 1, file_id, next_page_token)
    /\ reply' = NoReply
    /\ UNCHANGED <<pageSize, paths, create, calls, created, honest, start,
                   again>>
    /\ UNCHANGED <<pipeVars, otherVars>>

PathNext ==
    \/ \E ps \in Paths, cr \in BOOLEAN : PathCall(ps, cr)
    \/ ListReply
    \/ RequestRaises
    \/ CreateReply

\* ========================================================================
\* The other file operations of the client, called between path_to_id calls:
\* each sends one request, the drive changes, and self._path_id_cache is not
\* read or written (the attribute occurs in __init__ and path_to_id only).
\* ========================================================================

\* The ids of the entries the drive lists.
RemoteIds(ch) == UNION { { ch[p][k].id : k \in DOMAIN ch[p] } : p \in DOMAIN ch }

\* The entry with the id, which the drive lists.
EntryOf(ch, id) ==
    LET p == CHOOSE q \in DOMAIN ch : \E k \in DOMAIN ch[q] : ch[q][k].id = id
        k == CHOOSE j \in DOMAIN ch[p] : ch[p][j].id = id
    IN  ch[p][k]

\* The drive without the entries `ids` (file_list asks for trashed = false).
Without(ch, ids) ==
    [p \in DOMAIN ch |-> SelectSeq(ch[p], LAMBDA e : e.id \notin ids)]

\* The drive with entry `id` named `name`.
Renamed(ch, id, name) ==
    [p \in DOMAIN ch |->
        [k \in DOMAIN ch[p] |->
            IF ch[p][k].id = id THEN [ch[p][k] EXCEPT !.name = name]
                                ELSE ch[p][k]]]

\* The drive with the entry e listed last in folder `to`.
Added(ch, e, to) == [ch EXCEPT ![to] = Append(@, e)]

\* The folders a batch move or copy of entry `id` may name as to_parent_id: a
\* file goes to any folder but the one it is in, a folder to the root.
Targets(ch, id) ==
    { to \in DOMAIN ch :
        /\ \A k \in DOMAIN ch[to] : ch[to][k].id # id
        /\ to = None \/ (to \in RemoteIds(ch) /\ EntryOf(ch, id).kind # "drive#folder") }

\* No path_to_id call is running.
BetweenCalls == pc \in {"idle", "done"}

\* The id the client names an entry by: the one of the last record of the
\* chain that the last path_to_id call returned (as file_move_or_copy_by_path
\* takes path_ids[-1]), while the drive has the entry.
KnownIds ==
    IF path_ids = <<>> THEN {}
    ELSE {path_ids[Len(path_ids)].id} \cap RemoteIds(children)

\* The name an entry of the drive is renamed to.
NewNames(id) == {"a", "b"} \ {EntryOf(children, id).name}

\* Operations other than path_to_id the model lets the client call.
MaxFileOps == 1

\* One more operation is called; the cache and the locals of the last
\* path_to_id call stay as they are.
DriveFrame ==
    /\ fileOps < MaxFileOps
    /\ fileOps' = fileOps + 1
    /\ UNCHANGED <<cache, pageSize, pc, paths, create, path_ids, count,
                   parent_id, next_page_token, req, calls, ret, listed,
                   created, honest, start, again, reply>>
    /\ UNCHANGED <<pipeVars, path, mv, task, procs, ctor, cred, caps, legacy>>

delete_to_trash(ids) ==
    /\ BetweenCalls
    /\ children' = Without(children, ids)
    /\ UNCHANGED nextId
    /\ DriveFrame

delete_forever(ids) ==
    /\ BetweenCalls
    /\ children' = Without(children, ids)
    /\ UNCHANGED nextId
    /\ DriveFrame

file_rename(id, new_file_name) ==
    /\ BetweenCalls
    /\ children' = Renamed(children, id, new_file_name)
    /\ UNCHANGED nextId
    /\ DriveFrame

file_batch_move(ids, to_parent_id) ==
    /\ BetweenCalls
    /\ \E id \in ids :
          /\ ids = {id}
          /\ children' = Added(Without(children, ids), EntryOf(children, id),
                               to_parent_id)
    /\ UNCHANGED nextId
    /\ DriveFrame

\* The copy is a new entry: the drive gives it the next id.
file_batch_copy(ids, to_parent_id) ==
    /\ BetweenCalls
    /\ \E id \in ids :
          /\ ids = {id}
          /\ children' = Added(children,
                               [EntryOf(children, id) EXCEPT !.id = nextId],
                               to_parent_id)
    /\ nextId' = nextId + 1
    /\ DriveFrame

\* file_list called by the user of the client: the page is returned to the
\* caller and nothing of it is kept.
file_list(parent) ==
    /\ BetweenCalls
    /\ parent \in DOMAIN children
    /\ UNCHANGED <<children, nextId>>
    /\ DriveFrame

DriveNext ==
    \/ \E id \in KnownIds : delete_to_trash({id})
    \/ \E id \in KnownIds : delete_forever({id})
    \/ \E id \in KnownIds : \E n \in NewNames(id) : file_rename(id, n)
    \/ \E id \in KnownIds :
          \E to \in Targets(children, id) : file_batch_move({id}, to)
    \/ \E id \in KnownIds :
          \E to \in Targets(children, id) : file_batch_copy({id}, to)
    \/ \E parent \in DOMAIN children : file_list(parent)

\* ========================================================================
\* path_to_id calls running concurrently on one client: each call has its
\* own locals; the cache and the remote drive are shared.  The calls
\* interleave at their awaits (file_list, create_folder).
\* ========================================================================

\* The concurrent callers of path_to_id.
Procs == {1, 2}

\* The locals of a call.  missing: the segments of its path that were not on
\* the drive when it was called (read by the properties only).
NoCall ==
    [pc |-> "idle", paths |-> <<>>, create |-> FALSE, path_ids |-> <<>>,
     count |-> 0, parent_id |-> None, next_page_token |-> NoToken,
     req |-> NoReq, ret |-> "none", missing |-> 0]

\* `while count < len(paths)` for the call with the locals l.
Loop(l, c, parent, token) ==
    IF c < Len(l.paths)
    THEN [l EXCEPT !.pc = "list", !.req = ListReq(parent, token),
                   !.count = c, !.parent_id = parent,
                   !.next_page_token = token]
    ELSE [l EXCEPT !.pc = "done", !.ret = "resolved", !.req = NoReq,
                   !.count = c, !.parent_id = parent,
                   !.next_page_token = token]

\* Lines 596-629: the call of process p, to its first await.
ConcCall(p, ps, cr) ==
    /\ procs[p].pc = "idle"
    /\ LET hits == CacheHits(cache, ps, 1)
           hit_cnt == Len(hits)
           l == [NoCall EXCEPT !.paths = ps, !.create = cr, !.path_ids = hits,
                    !.missing = Len(ps) - Len(RemoteChain(children, ps, 1, None))]
       IN  procs' = [procs EXCEPT ![p] =
               IF hit_cnt = Len(ps)
               THEN [l EXCEPT !.pc = "done", !.ret = "hit"]
               ELSE Loop(l, hit_cnt,
                         IF hit_cnt = 0 THEN None ELSE hits[hit_cnt].id,
                         NoToken)]
    /\ UNCHANGED <<cache, children, nextId>>

\* Lines 630-667: file_list returns to process p.
ConcListReply(p) ==
    /\ procs[p].pc = "list"
    /\ LET l == procs[p] IN
       \E data \in TruePages(children, pageSize, l.req) :
       LET files == data.files
           got == data.next_page_token
           target == l.paths[l.count + 1]
           record_of_target_path == ScanMatch(files, target, NoRecord)
       IN
       /\ cache' = ScanCache(cache, Prefix(l.paths, l.count), files)
       /\ procs' = [procs EXCEPT ![p] =
            IF record_of_target_path # NoRecord
            THEN Loop([l EXCEPT !.path_ids = Append(@, record_of_target_path)],
                      l.count + 1, record_of_target_path.id,
                      TokenAfterMatch(l.next_page_token))
            ELSE IF MorePages(l.next_page_token, got)
            THEN Loop(l, l.count, l.parent_id, got)
            ELSE IF WantCreate(l.create)
            THEN [l EXCEPT !.pc = "create",
                           !.req = CreateReq(target, l.parent_id)]
            ELSE [l EXCEPT !.pc = "done", !.ret = "break", !.req = NoReq]]
    /\ UNCHANGED <<children, nextId>>

\* Lines 654-665: create_folder returns the new folder to process p.
ConcCreateReply(p) ==
    /\ procs[p].pc = "create"
    /\ LET l == procs[p]
           file_id == nextId
           record == [id |-> file_id, name |-> l.req.name,
                      file_type |-> "folder"]
       IN
       /\ children' = (file_id :> <<>>) @@
              [q \in DOMAIN children \cup {l.req.parent_id} |->
                  IF q = l.req.parent_id
                  THEN Append(ChildrenOf(children, q),
                              Entry(file_id, l.req.name, "drive#folder"))
                  ELSE children[q]]
       /\ nextId' = nextId + 1
       /\ cache' = (Prefix(l.paths, l.count + 1) :> record) @@ cache
       /\ procs' = [procs EXCEPT ![p] =
              Loop([l EXCEPT !.path_ids = Append(@, record)],
                   l.count + 1, file_id, l.next_page_token)]

\* The awaited file_list or create_folder of process p raises.
ConcRaises(p) ==
    /\ procs[p].pc \in {"list", "create"}
    /\ procs' = [procs EXCEPT ![p] =
                    [@ EXCEPT !.pc = "done", !.ret = "raised", !.req = NoReq]]
    /\ UNCHANGED <<cache, children, nextId>>

\* What a step of a concurrent call leaves alone.
ConcFrame ==
    /\ UNCHANGED <<pageSize, pc, paths, create, path_ids, count, parent_id,
                   next_page_token, req, calls, ret, listed, created, honest,
                   start, again, reply>>
    /\ UNCHANGED <<pipeVars, path, mv, task, fileOps, ctor,
                   cred, caps, legacy>>

ConcNext ==
    \E p \in Procs :
        \/ \E ps \in Paths, cr \in BOOLEAN : ConcCall(p, ps, cr) /\ ConcFrame
        \/ ConcListReply(p) /\ ConcFrame
        \/ ConcCreateReply(p) /\ ConcFrame
        \/ ConcRaises(p) /\ ConcFrame

\* ========================================================================
\* file_move_or_copy_by_path (lines 724-755)
\* ========================================================================

\* Most source paths handed to one call.
MaxSources == 2

\* A path argument is kept as the number of its segments.  The remote entry
\* at segment i of source path j has the id SegId(j, i); j = 0 is to_path.
SegId(j, i) == 100 * (j + 1) + i

\* What path_to_id returns for path j when it resolved k segments.
Chain(j, k) == [i \in 1..k |-> [id |-> SegId(j, i)]]

\* The chains path_to_id may return for a path of n segments: with
\* create=False any prefix of the full chain, with create=True the full one.
Chains(j, n, cr) == { Chain(j, k) : k \in (IF cr THEN {n} ELSE 0..n) }

SourceLists ==
    UNION { [1..m -> 1..MaxDepth] : m \in 1..MaxSources }

NoMove ==
    [pc |-> "idle", from_path |-> <<>>, to_path |-> 0, move |-> FALSE,
     create |-> FALSE, i |-> 0, from_ids |-> <<>>, to_parent_id |-> None,
     op |-> "none"]

\* Lines 739-743 for one path of from_path: its last id is appended whenever
\* the returned chain is not empty.
AppendSource(from_ids, chain) ==
    IF chain # <<>> /\ chain[Len(chain)].id # None
    THEN Append(from_ids, chain[Len(chain)].id)
    ELSE from_ids

\* Lines 747-750: the destination is the last id of the returned chain,
\* None (the root) when the chain is empty.
DestOf(to_path_ids) ==
    IF to_path_ids # <<>> THEN to_path_ids[Len(to_path_ids)].id ELSE None

\* The call starts and awaits path_to_id for the first source path.
MoveCall(fp, tp, is_move, cr) ==
    /\ mv.pc = "idle"
    /\ mv' = [NoMove EXCEPT !.pc = "from", !.from_path = fp, !.to_path = tp,
                            !.move = is_move, !.create = cr, !.i = 1]
    /\ UNCHANGED <<pipeVars, pathVars, path, task, procs, fileOps, ctor,
                   cred, caps, legacy>>

\* path_to_id(path) returns for a source path (create is left at False);
\* after the last one, an empty from_ids raises (lines 744-745), otherwise
\* path_to_id(to_path, create) is awaited.
SourceResolved ==
    /\ mv.pc = "from"
    /\ \E chain \in Chains(mv.i, mv.from_path[mv.i], FALSE) :
         LET ids == AppendSource(mv.from_ids, chain) IN
         mv' = [mv EXCEPT !.from_ids = ids,
                          !.i = @ + 1,
                          !.pc = IF mv.i < Len(mv.from_path) THEN "from"
                                 ELSE IF ids = <<>> THEN "raised"
                                 ELSE "to"]
    /\ UNCHANGED <<pipeVars, pathVars, path, task, procs, fileOps, ctor,
                   cred, caps, legacy>>

\* path_to_id(to_path, create) returns: the batch request is submitted.
DestResolved ==
    /\ mv.pc = "to"
    /\ \E to_path_ids \in Chains(0, mv.to_path, mv.create) :
         mv' = [mv EXCEPT !.to_parent_id = DestOf(to_path_ids),
                          !.op = IF mv.move THEN "file_batch_move"
                                 ELSE "file_batch_copy",
                          !.pc = "batch"]
    /\ UNCHANGED <<pipeVars, pathVars, path, task, procs, fileOps, ctor,
                   cred, caps, legacy>>

\* file_batch_move / file_batch_copy returns: so does the call.
BatchDone ==
    /\ mv.pc = "batch"
    /\ mv' = [mv EXCEPT !.pc = "done"]
    /\ UNCHANGED <<pipeVars, pathVars, path, task, procs, fileOps, ctor,
                   cred, caps, legacy>>

\* An awaited call (path_to_id, file_batch_move, file_batch_copy) raises: the
\* exception leaves file_move_or_copy_by_path.
MoveRaises ==
    /\ mv.pc \in {"from", "to", "batch"}
    /\ mv' = [mv EXCEPT !.pc = "raised"]
    /\ UNCHANGED <<pipeVars, pathVars, path, task, procs, fileOps, ctor,
                   cred, caps, legacy>>

MoveNext ==
    \/ \E fp \in SourceLists, tp \in 0..MaxDepth, is_move, cr \in BOOLEAN :
          MoveCall(fp, tp, is_move, cr)
    \/ SourceResolved
    \/ DestResolved
    \/ BatchDone
    \/ MoveRaises

\* ========================================================================
\* Operations around one or two requests: offline_file_info (one request,
\* nothing caught), offline_task_retry (lines 540-556: any exception is
\* raised again as PikpakException) and get_task_status (lines 575-594)
\* ========================================================================

\* Offline tasks the server may list.
MaxTasks == 3

TaskOps == {"offline_file_info", "offline_task_retry", "get_task_status"}

\* pc: "idle", "request" (the one request of the operation is awaited),
\* "offline_list" and "file_info" (the two awaits of get_task_status),
\* "returned", "raised".  status: the DownloadStatus returned.  failed: a
\* request of the operation ended in a PikpakException.
NoTask ==
    [pc |-> "idle", op |-> "none", task_id |-> 0, file_id |-> 0,
     tasks |-> {}, status |-> "none", failed |-> FALSE]

\* A public operation is called.
OpCall(op, task_id, file_id) ==
    /\ task.pc = "idle"
    /\ task' = [NoTask EXCEPT !.op = op, !.task_id = task_id,
                              !.file_id = file_id,
                              !.pc = IF op = "get_task_status"
                                     THEN "offline_list" ELSE "request"]
    /\ UNCHANGED <<pipeVars, pathVars, path, mv, procs, fileOps, ctor,
                   cred, caps, legacy>>

\* The request of offline_file_info or offline_task_retry returns its payload.
RequestReturns ==
    /\ task.pc = "request"
    /\ task' = [task EXCEPT !.pc = "returned"]
    /\ UNCHANGED <<pipeVars, pathVars, path, mv, procs, fileOps, ctor,
                   cred, caps, legacy>>

\* Whether the operation catches the PikpakException of its request and
\* returns normally: only get_task_status does (lines 593-594).
Caught(op) == op = "get_task_status"

\* The awaited request ends in a PikpakException (_make_request raised).
RequestFails ==
    /\ task.pc \in {"request", "offline_list", "file_info"}
    /\ task' = IF Caught(task.op)
               THEN [task EXCEPT !.failed = TRUE, !.pc = "returned",
                                 !.status = "error"]
               ELSE [task EXCEPT !.failed = TRUE, !.pc = "raised"]
    /\ UNCHANGED <<pipeVars, pathVars, path, mv, procs, fileOps, ctor,
                   cred, caps, legacy>>

\* Lines 583-587: offline_list returned; a listed task with the id asked for
\* is downloading, otherwise offline_file_info is awaited.
OfflineListReturns(tasks) ==
    /\ task.pc = "offline_list"
    /\ task' = IF task.task_id \in tasks
               THEN [task EXCEPT !.tasks = tasks, !.pc = "returned",
                                 !.status = "downloading"]
               ELSE [task EXCEPT !.tasks = tasks, !.pc = "file_info"]
    /\ UNCHANGED <<pipeVars, pathVars, path, mv, procs, fileOps, ctor,
                   cred, caps, legacy>>

\* Lines 588-592: offline_file_info returned a payload (found) or {}.
FileInfoReturns(found) ==
    /\ task.pc = "file_info"
    /\ task' = [task EXCEPT !.pc = "returned",
                            !.status = IF found THEN "done" ELSE "not_found"]
    /\ UNCHANGED <<pipeVars, pathVars, path, mv, procs, fileOps, ctor,
                   cred, caps, legacy>>

TaskNext ==
    \/ \E op \in TaskOps, task_id \in 1..MaxTasks, file_id \in 1..2 :
          OpCall(op, task_id, file_id)
    \/ RequestReturns
    \/ RequestFails
    \/ \E tasks \in SUBSET (1..MaxTasks) : OfflineListReturns(tasks)
    \/ \E found \in BOOLEAN : FileInfoReturns(found)

\* ========================================================================
\* path_to_id: from the path string to the segments (lines 603-606)
\* ========================================================================

\* The longest path string of the model.
MaxLen == 4

\* The characters of a path string: a letter, a blank and the separator.
Chars == {"a", " ", "/"}

Strings(n) == UNION { [1..k -> Chars] : k \in 0..n }

\* str.split("/"): the pieces between the separators, empty ones included
\* ("".split("/") is [""]).
RECURSIVE split(_)
split(s) ==
    IF s = <<>> THEN << <<>> >>
    ELSE IF Head(s) = "/" THEN << <<>> >> \o split(Tail(s))
    ELSE LET r == split(Tail(s)) IN << <<Head(s)>> \o Head(r) >> \o Tail(r)

RECURSIVE lstrip(_)
lstrip(s) ==
    IF s # <<>> /\ Head(s) = " " THEN lstrip(Tail(s)) ELSE s

RECURSIVE rstrip(_)
rstrip(s) ==
    IF s # <<>> /\ s[Len(s)] = " " THEN rstrip(SubSeq(s, 1, Len(s) - 1)) ELSE s

\* str.strip(): without the blanks at both ends.
strip(s) == rstrip(lstrip(s))

NonEmpty(p) == Len(p) > 0

\* Line 606: [p.strip() for p in paths if len(p) > 0] -- the filter looks at
\* the piece as split, the result holds the piece as stripped.
StripEach(pieces) ==
    LET kept == SelectSeq(pieces, NonEmpty)
    IN  [i \in 1..Len(kept) |-> strip(kept[i])]

\* Lines 603-606: the segments path_to_id goes on to resolve (an empty path
\* returns [] at line 604).
Segments(p) ==
    IF p = <<>> THEN <<>> ELSE StripEach(split(p))

\* ========================================================================
\* Construction: PikPakApi.__init__ with decode_token, and encode_token
\* ========================================================================

\* username and password: None, "" or a value.
Credentials == {"None", "", "given"}

Truthy(x) == x \notin {"None", ""}

NoCtor ==
    [username |-> "None", password |-> "None", encoded_token |-> Absent,
     outcome |-> "none", exported |-> <<>>]

\* PikPakApi.decode_token: the exception it raises ("none": it returns) and
\* the tokens it stores.  binascii.Error and json.JSONDecodeError are caught
\* and raised as PikpakException; what else line 245 raises is not caught,
\* and neither is the AttributeError of decoded_data.get at line 248.
decode_token(e) ==
    LET raised(x) == [exc |-> x, access_token |-> None, refresh_token |-> None] IN
    IF e.b64 = "bad" THEN raised("PikpakException")
    ELSE IF e.b64 = "not_ascii" THEN raised("ValueError")
    ELSE IF ~e.utf8 THEN raised("UnicodeDecodeError")
    ELSE IF e.json = "invalid" THEN raised("PikpakException")
    ELSE IF e.json # "object" THEN raised("AttributeError")
    ELSE IF e.access_token = None \/ e.refresh_token = None
         THEN raised("PikpakException")
    ELSE [exc |-> "none", access_token |-> e.access_token,
          refresh_token |-> e.refresh_token]

\* PikPakApi.__init__, lines 85-109: the outcome ("client", or the exception
\* raised) and the tokens the client starts with.
Constructed(username, password, e) ==
    IF e # Absent
    THEN LET d == decode_token(e) IN
         [outcome |-> IF d.exc = "none" THEN "client" ELSE d.exc,
          access_token |-> d.access_token, refresh_token |-> d.refresh_token]
    ELSE [outcome |-> IF Truthy(username) /\ Truthy(password)
                      THEN "client" ELSE "PikpakException",
          access_token |-> None, refresh_token |-> None]

ConstructFrame ==
    /\ UNCHANGED <<user_id, captcha_token, stack, result, issued, sends, fails,
                   obs, lastMsg, latest, handled>>
    /\ UNCHANGED <<pathVars, path, mv, task, procs, fileOps, cred, caps, legacy>>

\* PikPakApi(username, password, encoded_token).
__init__ ==
    /\ ctor.outcome = "none"
    /\ LET c == Constructed(ctor.username, ctor.password, ctor.encoded_token) IN
        /\ ctor' = [ctor EXCEPT !.outcome = c.outcome]
        /\ access_token' = c.access_token
        /\ refresh_token' = c.refresh_token
        /\ encoded_token' = ctor.encoded_token
    /\ ConstructFrame

\* client.encode_token() on a client that holds both tokens: the export, of
\* which `exported` keeps the pair it was made from.
Export ==
    /\ ctor.outcome = "client"
    /\ ctor.exported = <<>>
    /\ access_token # None /\ refresh_token # None
    /\ ctor' = [ctor EXCEPT !.encoded_token = encode_token(access_token, refresh_token),
                            !.exported = <<access_token, refresh_token>>,
                            !.outcome = "exported"]
    /\ encoded_token' = encode_token(access_token, refresh_token)
    /\ UNCHANGED <<access_token, refresh_token>>
    /\ ConstructFrame

\* PikPakApi(encoded_token=<the export>): a new client, whose fields start
\* as lines 85-87 set them.
Import ==
    /\ ctor.outcome = "exported"
    /\ LET c == Constructed("None", "None", ctor.encoded_token) IN
        /\ ctor' = [ctor EXCEPT !.outcome = IF c.outcome = "client" THEN "imported"
                                            ELSE c.outcome,
                                !.username = "None", !.password = "None"]
        /\ access_token' = c.access_token
        /\ refresh_token' = c.refresh_token
        /\ encoded_token' = ctor.encoded_token
    /\ ConstructFrame

\* ========================================================================
\* login and refresh_access_token called by the user of the client
\* ========================================================================

\* The running call.  pc: "idle", "captcha" (login awaits captcha_init),
\* "signin" (login awaits its sign-in request), "refresh"
\* (refresh_access_token awaits its request), "done"; how: "returned" or the
\* exception raised; before: the four credential fields as the call found
\* them, and ok: a login or refresh_access_token call has returned normally
\* (both read by the properties only).
NoCred ==
    [pc |-> "idle", op |-> "none", how |-> "none", before |-> <<>>, ok |-> FALSE]

\* The keys a sign-in or refresh response may hold ({}: the empty payload).
Payloads == SUBSET {"access_token", "refresh_token", "sub"}

\* Lines 331-334 and 349-352 on a payload with the given keys, whose tokens
\* are tok: the assignments run in order, and the first missing key raises
\* KeyError; encode_token runs after the three of them.
StoreUserInfo(keys, tok) ==
    LET a == "access_token" \in keys
        r == a /\ "refresh_token" \in keys
        u == r /\ "sub" \in keys
    IN  [access_token |-> IF a THEN tok ELSE access_token,
         refresh_token |-> IF r THEN tok ELSE refresh_token,
         user_id |-> IF u THEN "user" ELSE user_id,
         encoded_token |-> IF u THEN encode_token(tok, tok) ELSE encoded_token,
         exc |-> IF u THEN "none" ELSE "KeyError"]

Credential == <<access_token, refresh_token, user_id, encoded_token>>

CredFrame ==
    /\ UNCHANGED <<captcha_token, stack, result, sends, fails, obs, lastMsg,
                   latest, handled>>
    /\ UNCHANGED <<pathVars, path, mv, task, procs, fileOps, ctor, caps, legacy>>

\* login up to its first suspension point (lines 291-302): without username
\* or password it raises; otherwise captcha_init is awaited.
LoginCall ==
    /\ cred.pc \in {"idle", "done"}
    /\ cred' = IF Truthy(ctor.username) /\ Truthy(ctor.password)
               THEN [cred EXCEPT !.pc = "captcha", !.op = "login",
                                 !.how = "none", !.before = Credential]
               ELSE [cred EXCEPT !.pc = "done", !.op = "login",
                                 !.how = "PikpakException",
                                 !.before = Credential]
    /\ UNCHANGED <<access_token, refresh_token, user_id, encoded_token, issued>>
    /\ CredFrame

\* captcha_init returns (lines 303-330): without a captcha token login
\* raises; with one it awaits the sign-in request.
LoginCaptchaReturns ==
    /\ cred.pc = "captcha"
    /\ \E has \in BOOLEAN :
          cred' = IF has THEN [cred EXCEPT !.pc = "signin"]
                  ELSE [cred EXCEPT !.pc = "done", !.how = "PikpakException"]
    /\ UNCHANGED <<access_token, refresh_token, user_id, encoded_token, issued>>
    /\ CredFrame

\* refresh_access_token up to its suspension point (lines 340-348).
RefreshCall ==
    /\ cred.pc \in {"idle", "done"}
    /\ cred' = [cred EXCEPT !.pc = "refresh", !.op = "refresh_access_token",
                            !.how = "none", !.before = Credential]
    /\ UNCHANGED <<access_token, refresh_token, user_id, encoded_token, issued>>
    /\ CredFrame

\* The sign-in or refresh request returns user_info: lines 331-334, 349-352.
UserInfoReturns ==
    /\ cred.pc \in {"signin", "refresh"}
    /\ issued < MaxTokens
    /\ \E keys \in Payloads :
          LET s == StoreUserInfo(keys, issued + 1) IN
          /\ access_token' = s.access_token
          /\ refresh_token' = s.refresh_token
          /\ user_id' = s.user_id
          /\ encoded_token' = s.encoded_token
          /\ issued' = IF keys = {} THEN issued ELSE issued + 1
          /\ cred' = [cred EXCEPT !.pc = "done",
                                  !.how = IF s.exc = "none" THEN "returned"
                                          ELSE s.exc,
                                  !.ok = @ \/ s.exc = "none"]
    /\ CredFrame

\* The awaited request raises PikpakException (the pipeline gave up or the
\* response is a fatal error): the call lets it through.
AuthRequestRaises ==
    /\ cred.pc \in {"captcha", "signin", "refresh"}
    /\ cred' = [cred EXCEPT !.pc = "done", !.how = "PikpakException"]
    /\ UNCHANGED <<access_token, refresh_token, user_id, encoded_token, issued>>
    /\ CredFrame

CredNext ==
    \/ LoginCall
    \/ LoginCaptchaReturns
    \/ RefreshCall
    \/ UserInfoReturns
    \/ AuthRequestRaises

\* ========================================================================
\* file_list and get_download_url: the captcha token of a call
\* ========================================================================

\* The operations that fetch a captcha token for their request.
CaptchaKinds == {"file_list", "get_download_url"}

\* A caller's operation.  pc: "idle", "captcha" (awaiting captcha_init),
\* "request" (awaiting an attempt of its _request_get/_request_post), "sleep"
\* (in the asyncio.sleep of _make_request), "done"; n: the operations it has
\* called; token: the captcha token its captcha_init returned; attempt: the
\* loop index of _make_request; how: "returned" or "raised"; msg: the request
\* it sent last, with its headers (read by the properties only).
NoCap ==
    [pc |-> "idle", kind |-> "none", n |-> 0, token |-> None, attempt |-> 0,
     how |-> "none", msg |-> [kind |-> "none", headers |-> <<>>]]

\* The captcha token the server hands to the n-th operation of caller p.
CaptchaToken(p, n) == 10 * p + n

CapFrame ==
    /\ UNCHANGED <<access_token, refresh_token, user_id, encoded_token, stack,
                   result, issued, sends, fails, obs, lastMsg, latest, handled>>
    /\ UNCHANGED <<pathVars, path, mv, task, procs, fileOps, ctor, cred, legacy>>

\* file_list / get_download_url up to the first suspension point: the
\* captcha_init request is sent (lines 514-516, 765-767).
CaptchaCall(p, kind) ==
    /\ caps[p].pc \in {"idle", "done"}
    /\ caps[p].n < MaxFileOps
    /\ caps' = [caps EXCEPT ![p] =
                  [pc |-> "captcha", kind |-> kind, n |-> @.n + 1,
                   token |-> None, attempt |-> 0, how |-> "none",
                   msg |-> [kind |-> "captcha_init", headers |-> <<get_headers>>]]]
    /\ UNCHANGED captcha_token
    /\ CapFrame

\* Another operation of the client (create_folder, file_rename, ...): one
\* request through _make_request, sent with get_headers().
OtherCall(p) ==
    /\ caps[p].pc \in {"idle", "done"}
    /\ caps[p].n < MaxFileOps
    /\ caps' = [caps EXCEPT ![p] =
                  [pc |-> "request", kind |-> "other", n |-> @.n + 1,
                   token |-> None, attempt |-> 0, how |-> "none",
                   msg |-> [kind |-> "other", headers |-> <<get_headers>>]]]
    /\ UNCHANGED captcha_token
    /\ CapFrame

\* captcha_init returns: lines 517-518 (768-771) store the token of the
\* response (response.get: None when it has none) and send the first attempt
\* of the listing / detail request, whose headers get_headers() builds then.
captcha_init(p) ==
    /\ caps[p].pc = "captcha"
    /\ \E tok \in {None, CaptchaToken(p, caps[p].n)} :
          /\ captcha_token' = tok
          /\ caps' = [caps EXCEPT ![p].pc = "request", ![p].token = tok,
                                  ![p].msg = [kind |-> "request",
                                              headers |-> <<[get_headers EXCEPT
                                                  !.X_Captcha_Token = tok]>>]]
    /\ CapFrame

\* captcha_init raises (its request gave up): the operation lets it through.
CaptchaInitRaises(p) ==
    /\ caps[p].pc = "captcha"
    /\ caps' = [caps EXCEPT ![p].pc = "done", ![p].how = "raised"]
    /\ UNCHANGED captcha_token
    /\ CapFrame

\* The request of the operation returns: file_list and get_download_url
\* clear the field (lines 519, 772) and return the result.
CapReturns(p) ==
    /\ caps[p].pc = "request"
    /\ caps' = [caps EXCEPT ![p].pc = "done", ![p].how = "returned"]
    /\ captcha_token' = IF caps[p].kind \in CaptchaKinds THEN None
                        ELSE captcha_token
    /\ CapFrame

\* The response is a fatal error: _make_request raises PikpakException, and
\* the operation lets it through (lines 519 and 772 are not reached).
CapFatal(p) ==
    /\ caps[p].pc = "request"
    /\ caps' = [caps EXCEPT ![p].pc = "done", ![p].how = "raised"]
    /\ UNCHANGED captcha_token
    /\ CapFrame

\* The attempt fails without ending the request (line 172).
CapAttemptFails(p) ==
    /\ caps[p].pc = "request"
    /\ caps' = [caps EXCEPT ![p].pc = "sleep"]
    /\ UNCHANGED captcha_token
    /\ CapFrame

\* asyncio.sleep is over: the next attempt is sent with the headers
\* get_headers() builds now (line 178), or the loop is exhausted and
\* _make_request raises (line 175).
CapWake(p) ==
    /\ caps[p].pc = "sleep"
    /\ IF HasNextAttempt(caps[p].attempt)
       THEN caps' = [caps EXCEPT ![p].pc = "request", ![p].attempt = @ + 1,
                                 ![p].msg = [kind |-> @.kind,
                                             headers |-> <<get_headers>>]]
       ELSE caps' = [caps EXCEPT ![p].pc = "done", ![p].how = "raised"]
    /\ UNCHANGED captcha_token
    /\ CapFrame

CapNext ==
    \E p \in Procs :
        \/ \E kind \in CaptchaKinds : CaptchaCall(p, kind)
        \/ OtherCall(p)
        \/ captcha_init(p)
        \/ CaptchaInitRaises(p)
        \/ CapReturns(p)
        \/ CapFatal(p)
        \/ CapAttemptFails(p)
        \/ CapWake(p)

\* ========================================================================
\* The legacy clients: pikpak.PikPakAPI (synchronous) and
\* PikPakApiAsync.get_task_status
\* ========================================================================

\* The operations of the synchronous client that retry on auth-expiry.
SyncOps == {"offline_download", "offline_list", "offline_file_info"}

\* offline_list's default for size (next_page_token defaults to None).
DefaultSize == 10000

\* The arguments a caller passes: offline_download(file_url),
\* offline_list(size, next_page_token), offline_file_info(task_id),
\* get_task_status(task_id, file_id).
LegacyArgs(op) ==
    IF op = "offline_download" THEN { <<"url1">>, <<"url2">> }
    ELSE IF op = "offline_list"
         THEN { <<size, t>> : size \in {DefaultSize, 50}, t \in {"None", "T"} }
    ELSE IF op = "offline_file_info" THEN { <<"task1">>, <<"task2">> }
    ELSE { <<t, f>> : t \in {"task1", "task2"}, f \in {"file1", "file2"} }

\* The running operation.  The frames below the running one all wait for it
\* in the same statement (`return self.offline_list()`, `await
\* self.get_task_status(task_id, file_id)`) and hold no other state, so the
\* running frame stands for the stack: pc -- "idle", "request" (its request is
\* in flight), "login" (the login request is in flight), "done"; args -- the
\* caller's arguments; sent -- the arguments of the running frame; retry --
\* the running frame is a recursive call; stage -- the request of
\* get_task_status in flight ("list", "info"); how, value -- how the call of
\* the caller ended and what it returned.
NoLegacy ==
    [pc |-> "idle", op |-> "none", args |-> <<>>, sent |-> <<>>,
     retry |-> FALSE, stage |-> "none", how |-> "none", value |-> "none"]

\* The call the operation makes on itself after login(): offline_list is
\* called without arguments (line 105), the others with their own (lines 79,
\* 125; async_api.py line 344).
RetryArgs(op, sent) ==
    IF op = "offline_list" THEN <<DefaultSize, "None">> ELSE sent

LegacyFrame ==
    /\ UNCHANGED <<pipeVars, pathVars>>
    /\ UNCHANGED <<path, mv, task, procs, fileOps, ctor, cred, caps>>

\* A caller invokes the operation: its first request is sent.
LegacyCall(op, args) ==
    /\ legacy.pc \in {"idle", "done"}
    /\ legacy' = [NoLegacy EXCEPT !.pc = "request", !.op = op, !.args = args,
                                  !.sent = args,
                                  !.stage = IF op = "get_task_status"
                                            THEN "list" ELSE "none"]
    /\ LegacyFrame

\* What the caller gets when the running frame returns v: the synchronous
\* operations return the value of the call they made on themselves;
\* get_task_status awaits that call without returning its value.
Returned_value(op, retry, v) ==
    IF op = "get_task_status" /\ retry THEN "None" ELSE v

\* The response has no "error" field.  The synchronous operations return it
\* (the value kept is the arguments it answers); get_task_status goes on
\* from offline_list to offline_file_info or returns a status.
LegacyResult ==
    /\ legacy.pc = "request"
    /\ IF legacy.op \in SyncOps
       THEN legacy' = [legacy EXCEPT !.pc = "done", !.how = "returned",
                                     !.value = legacy.sent]
       ELSE IF legacy.stage = "list"
       THEN \E found \in BOOLEAN :
              legacy' = IF found
                        THEN [legacy EXCEPT !.pc = "done", !.how = "returned",
                                 !.value = Returned_value(legacy.op, legacy.retry,
                                                          "downloading")]
                        ELSE [legacy EXCEPT !.stage = "info"]
       ELSE \E v \in {"done", "not_found"} :
              legacy' = [legacy EXCEPT !.pc = "done", !.how = "returned",
                            !.value = Returned_value(legacy.op, legacy.retry, v)]
    /\ LegacyFrame

\* The response reports error_code 16: login() is called.
LegacyExpired ==
    /\ legacy.pc = "request"
    /\ legacy' = [legacy EXCEPT !.pc = "login"]
    /\ LegacyFrame

\* The response reports another error: the synchronous operations raise
\* Exception; get_task_status catches PikpakException and returns
\* DownloadStatus.error.
LegacyError ==
    /\ legacy.pc = "request"
    /\ legacy' = IF legacy.op \in SyncOps
                 THEN [legacy EXCEPT !.pc = "done", !.how = "raised"]
                 ELSE [legacy EXCEPT !.pc = "done", !.how = "returned",
                          !.value = Returned_value(legacy.op, legacy.retry,
                                                   "error")]
    /\ LegacyFrame

\* login() returns: the operation calls itself, and the request of the new
\* frame is sent.
LegacyLoginReturns ==
    /\ legacy.pc = "login"
    /\ legacy' = [legacy EXCEPT !.pc = "request", !.retry = TRUE,
                                !.sent = RetryArgs(legacy.op, legacy.sent),
                                !.stage = IF legacy.op = "get_task_status"
                                          THEN "list" ELSE "none"]
    /\ LegacyFrame

\* login() raises (the sign-in response has no access_token, or reports an
\* error): nothing catches it.
LegacyLoginRaises ==
    /\ legacy.pc = "login"
    /\ legacy' = [legacy EXCEPT !.pc = "done", !.how = "raised"]
    /\ LegacyFrame

\* The steps the client takes once a response has arrived.
LegacyStep ==
    \/ LegacyResult
    \/ LegacyExpired
    \/ LegacyError
    \/ LegacyLoginReturns
    \/ LegacyLoginRaises

LegacyNext ==
    \/ \E op \in SyncOps \cup {"get_task_status"} :
          \E args \in LegacyArgs(op) : LegacyCall(op, args)
    \/ LegacyStep

OtherInit ==
    /\ path = <<>>
    /\ mv = NoMove
    /\ task = NoTask
    /\ procs = [p \in Procs |-> NoCall]
    /\ fileOps = 0
    /\ ctor = NoCtor
    /\ cred = NoCred
    /\ caps = [p \in Procs |-> NoCap]
    /\ legacy = NoLegacy

\* path_to_id up to line 606: `paths` holds the segments of `path`.
SplitPath ==
    /\ pc = "idle"
    /\ paths' = Segments(path)
    /\ pc' = "split"
    /\ UNCHANGED <<cache, children, pageSize, nextId, create, path_ids, count,
                   parent_id, next_page_token, req, calls, ret, listed,
                   created, honest, start, again, reply>>
    /\ UNCHANGED <<pipeVars, otherVars>>

\* ========================================================================
\* The specifications
\* ========================================================================

\* The request pipeline; the path resolver stays idle on an empty drive.
Init ==
    /\ PipeInit
    /\ PathInit
    /\ children = RemoteTree(0, FALSE)
    /\ pageSize = 1
    /\ OtherInit
    /\ Unrecorded

Next == PipeNext

Spec == Init /\ [][Next]_vars

\* The path resolver; the pipeline is seen through the outcome of file_list
\* and create_folder only.
InitPath ==
    /\ PipeInit
    /\ access_token = 1
    /\ PathInit
    /\ OtherInit
    /\ Unrecorded

NextPath == PathNext

SpecPath == InitPath /\ [][NextPath]_vars

\* The path resolver against a server whose listing pages are finite and
\* whose continuation tokens come from a finite set, and follow no other
\* rule: file_list returns the page the request asks for with any of the
\* server's tokens, or with none.  The coroutine is resumed whenever the
\* awaited call has returned (the event loop runs a ready task).
ServerTokens == { Token(None, 2), Token(None, 3) }

AnyTokenReply ==
    \E d \in TruePages(children, pageSize, req),
       t \in ServerTokens \cup {NoToken} :
        ListReplyWith([files |-> d.files, next_page_token |-> t])

NextPage ==
    \/ \E ps \in Paths, cr \in BOOLEAN : PathCall(ps, cr)
    \/ AnyTokenReply
    \/ RequestRaises
    \/ CreateReply

SpecPage ==
    /\ InitPath
    /\ [][NextPage]_vars
    /\ WF_vars(AnyTokenReply)
    /\ WF_vars(CreateReply)

\* The segments of a path string: path_to_id is given one string and runs up
\* to line 606.
\* A segment as the name it is compared with and cached under.
RECURSIVE Join(_)
Join(seg) == IF seg = <<>> THEN "" ELSE Head(seg) \o Join(Tail(seg))

\* path_to_id from line 607 to its first suspension point, for the segments
\* of the string path: the cache probe, then the return of a full hit or the
\* first file_list.
ProbeCache(cr) ==
    /\ pc = "split"
    /\ LET ps == [i \in DOMAIN paths |-> Join(paths[i])]
           hits == CacheHits(cache, ps, 1)
           hit_cnt == Len(hits)
       IN  /\ paths' = ps
           /\ path_ids' = hits
           /\ WhileLoop(ps, IF hit_cnt = Len(ps) THEN Len(ps) ELSE hit_cnt,
                        IF hit_cnt = 0 THEN None ELSE hits[hit_cnt].id, NoToken)
    /\ create' = cr
    /\ calls' = calls + 1
    /\ UNCHANGED <<cache, children, pageSize, nextId, created, honest, start,
                   again, reply>>
    /\ UNCHANGED <<pipeVars, otherVars>>

InitNorm ==
    /\ PipeInit
    /\ access_token = 1
    /\ PathInit
    /\ children = RemoteTree(0, FALSE)
    /\ pageSize = 1
    /\ path \in Strings(MaxLen)
    /\ mv = NoMove
    /\ task = NoTask
    /\ procs = [p \in Procs |-> NoCall]
    /\ fileOps = 0
    /\ ctor = NoCtor
    /\ cred = NoCred
    /\ caps = [p \in Procs |-> NoCap]
    /\ legacy = NoLegacy
    /\ Unrecorded

NextNorm == SplitPath \/ \E cr \in BOOLEAN : ProbeCache(cr)

SpecNorm == InitNorm /\ [][NextNorm]_vars

\* One logical request, followed response by response: a single operation
\* runs, and `handled` records the response to each of its attempts.
InitErr ==
    /\ PipeInit
    /\ PathInit
    /\ children = RemoteTree(0, FALSE)
    /\ pageSize = 1
    /\ OtherInit
    /\ ~Unrecorded

NextErr == PipeStep(1)

SpecErr == InitErr /\ [][NextErr]_vars

\* One operation of a client, which is login or an operation that sends one
\* logical request.
NextAuth == PipeStep(1) \/ login(1)

SpecAuth == Init /\ [][NextAuth]_vars

\* file_move_or_copy_by_path; path_to_id is seen through the chain it returns.
InitMove ==
    /\ PipeInit
    /\ access_token = 1
    /\ PathInit
    /\ children = RemoteTree(0, FALSE)
    /\ pageSize = 1
    /\ OtherInit
    /\ Unrecorded

NextMove == MoveNext

SpecMove == InitMove /\ [][NextMove]_vars

\* The operations on offline tasks; the pipeline is seen through the outcome
\* of each request.
InitTask == InitMove

NextTask == TaskNext

SpecTask == InitTask /\ [][NextTask]_vars

\* Two path_to_id calls, one per process, interleaving at their awaits; the
\* server answers every listing as the drive is.
InitConc == InitPath

NextConc == ConcNext

SpecConc == InitConc /\ [][NextConc]_vars

\* Construction of a client from every combination of arguments, its export
\* and the construction of a client from the export.
InitCtor ==
    /\ PipeInit
    /\ access_token = None
    /\ PathInit
    /\ children = RemoteTree(0, FALSE)
    /\ pageSize = 1
    /\ path = <<>>
    /\ mv = NoMove
    /\ task = NoTask
    /\ procs = [p \in Procs |-> NoCall]
    /\ fileOps = 0
    /\ \E u \in Credentials, pw \in Credentials, e \in EncodedTokens :
          ctor = [NoCtor EXCEPT !.username = u, !.password = pw,
                                !.encoded_token = e]
    /\ cred = NoCred
    /\ caps = [p \in Procs |-> NoCap]
    /\ legacy = NoLegacy
    /\ Unrecorded

NextCtor == __init__ \/ Export \/ Import

SpecCtor == InitCtor /\ [][NextCtor]_vars

\* login and refresh_access_token on a client built from an encoded_token
\* (tokens 1/1), from username and password (no tokens), or from both.
InitCred ==
    /\ PipeInit
    /\ PathInit
    /\ children = RemoteTree(0, FALSE)
    /\ pageSize = 1
    /\ path = <<>>
    /\ mv = NoMove
    /\ task = NoTask
    /\ procs = [p \in Procs |-> NoCall]
    /\ fileOps = 0
    /\ \E u \in {"None", "given"} :
          /\ access_token = None => u = "given"
          /\ ctor = [NoCtor EXCEPT !.username = u, !.password = u,
                                   !.encoded_token = encoded_token,
                                   !.outcome = "client"]
    /\ cred = NoCred
    /\ caps = [p \in Procs |-> NoCap]
    /\ legacy = NoLegacy
    /\ Unrecorded

SpecCred == InitCred /\ [][CredNext]_vars

\* The operations of a legacy client, called one after the other; every
\* request is answered some time.
SpecLegacy == Init /\ [][LegacyNext]_vars /\ WF_vars(LegacyStep)

\* Operations of concurrent callers on one client that holds a token pair.
InitCaptcha ==
    /\ InitPath
    /\ children = RemoteTree(0, FALSE)
    /\ pageSize = 1

SpecCaptcha == InitCaptcha /\ [][CapNext]_vars

\* path_to_id calls and the other file operations, one after the other on one
\* client.
InitDrive ==
    /\ PipeInit
    /\ PathInit
    /\ access_token = 1
    /\ children = RemoteTree(1, TRUE)
    /\ pageSize = 2
    /\ OtherInit
    /\ Unrecorded

NextDrive == PathNext \/ DriveNext

SpecDrive == InitDrive /\ [][NextDrive]_vars

\* ========================================================================
\* Properties of the request pipeline (specification Spec)
\* ========================================================================

\* C1: a logical request ends after a bounded number of sends however often
\* the server reports expiry, the refresh exchange included: the nesting
\* _handle_response -> refresh_access_token -> _make_request of one operation
\* is stopped by the code.  In the model only MaxFrames stops it, so the
\* claim says that no operation ever nests as deep as MaxFrames.
C1_NestingBounded ==
    \A o \in Ops : Depth(o) < MaxFrames

\* C2: one logical request makes at most max_retries sends; when max_retries
\* attempts have failed transiently it is in its last sleep or has raised
\* the terminal "Max retries reached" error, and after that error exactly
\* max_retries sends were made and no frame is left to send anything.
C2_RetryBudget ==
    \A o \in Ops :
        /\ sends[o] <= max_retries
        /\ fails[o] <= max_retries
        /\ fails[o] = max_retries =>
              \/ result[o] = "max_retries"
              \/ Depth(o) = 1 /\ Top(o).pc = "sleep" /\ Top(o).attempt = max_retries - 1
        /\ result[o] = "max_retries" =>
              sends[o] = max_retries /\ fails[o] = max_retries /\ stack[o] = <<>>
        /\ result[o] \in {"ok", "fatal", "max_retries", "refresh_failed"} =>
              stack[o] = <<>>

\* An operation whose request failed max_retries times and raised.
C2_Witness ==
    \E o \in Ops : result[o] = "max_retries" /\ sends[o] = max_retries

\* C3: when a response reported expiry and the next attempt of the same request
\* succeeded, exactly one refresh_access_token call was made in between.
C3_ExactlyOneRefresh ==
    \A o \in Ops : obs[o] \in {0, 1}

\* C4: a request sent without headers of the caller after a refresh has
\* completed carries the access token that the refresh response processed
\* last before the send delivered.
C4_FreshToken ==
    \A o \in Ops :
        (lastMsg[o].kind # "none" /\ ~lastMsg[o].own /\ lastMsg[o].latest # None)
            => lastMsg[o].headers.Authorization = lastMsg[o].latest

\* An operation has retried its request after the refresh it triggered, and
\* the other operation has sent a request after that refresh too.
C4_Witness ==
    \E o1, o2 \in Ops :
        /\ o1 # o2
        /\ lastMsg[o1].kind = "api" /\ sends[o1] >= 2 /\ obs[o1] = 1
        /\ lastMsg[o1].latest # None
        /\ lastMsg[o2].kind = "api" /\ lastMsg[o2].latest = lastMsg[o1].latest
        /\ lastMsg[o1].headers.Authorization = lastMsg[o1].latest

\* ========================================================================
\* Properties of the path resolver (specification SpecPath)
\* ========================================================================

Returned == pc = "done" /\ ret \in {"hit", "resolved", "break"}

\* C5: with an empty cache and create=False, a path whose segments all exist
\* remotely (on whatever page of their parent's listing) resolves to one
\* record per segment, in order, with the remote ids.
C5_FullChain ==
    (Returned /\ ~create /\ start.cold /\ honest
        /\ Len(start.remote) = Len(paths))
    => /\ Len(path_ids) = Len(paths)
       /\ \A i \in 1..Len(paths) :
             path_ids[i].id = start.remote[i] /\ path_ids[i].name = paths[i]

\* C6: a file_list request carries a continuation token only for the parent
\* whose listing returned that token.
C6_TokenReset ==
    (pc = "list" /\ req.next_page_token # NoToken)
        => req.next_page_token[1] = req.parent_id

\* C7: with create=True and a path of which exactly the last segment is
\* missing remotely, path_to_id makes exactly one create_folder call, for the
\* last segment under the id of its parent, and returns a full chain.
C7_ExactlyOneCreate ==
    (Returned /\ create /\ honest /\ start.agree
        /\ Len(start.remote) = Len(paths) - 1)
    => /\ Len(created) = 1
       /\ created[1] = <<paths[Len(paths)],
                         IF Len(paths) = 1 THEN None
                         ELSE start.remote[Len(paths) - 1]>>
       /\ Len(path_ids) = Len(paths)

\* C8: a call that repeats the path of the call before, which resolved every
\* segment, returns at once from the cache: no file_list, no create_folder,
\* and the chain of the call before.
C8_Idempotent ==
    [][(calls' = calls + 1 /\ again')
        => /\ pc' = "done" /\ ret' = "hit"
           /\ ~listed'
           /\ created' = <<>>
           /\ path_ids' = path_ids
           /\ Len(path_ids') = Len(paths')]_vars

\* The second call repeated the path of the first and was served from the cache.
C8_Witness ==
    again /\ calls = 2 /\ pc = "done" /\ ret = "hit" /\ ~listed
        /\ Len(path_ids) = Len(paths)

\* C9: a listing response without a match whose continuation token is the
\* token just sent ends the pagination for the segment: the folder is created
\* (create set) or the partial chain is returned; the page is not requested
\* again.
C9_SameTokenStops ==
    (reply.seen /\ ~reply.match /\ reply.sent # NoToken /\ reply.token = reply.sent)
    => IF create
       THEN /\ pc = "create" /\ req.op = "create_folder"
            /\ req.name = paths[count + 1] /\ req.parent_id = parent_id
       ELSE pc = "done" /\ ret = "break"

\* The server repeated the token and the call returned its partial chain.
C9_Witness ==
    /\ reply.seen /\ ~reply.match /\ reply.sent # NoToken /\ reply.token = reply.sent
    /\ ~honest /\ ~create /\ pc = "done" /\ ret = "break"

\* C10: with create=False no create_folder is ever issued; a segment that is
\* not found on the last page of its parent's listing makes path_to_id return
\* (not raise) the chain resolved so far, which is shorter than the path and
\* holds the cached records of its leading segments.
C10_PartialResult ==
    /\ ~create => (created = <<>> /\ pc # "create")
    /\ (reply.seen /\ ~create /\ ~reply.match /\ reply.token = NoToken)
          => (pc = "done" /\ ret = "break")
    /\ (pc = "done" /\ ret = "break")
          => /\ ~create
             /\ Len(path_ids) < Len(paths)
             /\ \A i \in 1..Len(path_ids) :
                   /\ path_ids[i].name = paths[i]
                   /\ Prefix(paths, i) \in DOMAIN cache
                   /\ cache[Prefix(paths, i)] = path_ids[i]

\* /NoSuch on an empty root listing: [] is returned.
C10_Witness ==
    /\ pc = "done" /\ ret = "break" /\ ~create
    /\ ChildrenOf(children, None) = <<>>
    /\ reply.seen /\ reply.token = NoToken
    /\ path_ids = <<>>

\* ========================================================================
\* Properties of the segments (specification SpecNorm)
\* ========================================================================

\* C11: the segments path_to_id resolves are non-empty and carry no blank at
\* either end, whatever the path string.
C11_SegmentsTrimmed ==
    pc = "split" =>
        \A i \in 1..Len(paths) :
            /\ paths[i] # <<>>
            /\ Head(paths[i]) # " "
            /\ paths[i][Len(paths[i])] # " "

\* ========================================================================
\* Properties of one logical request (specification SpecErr)
\* ========================================================================

\* C12: a response with an empty or unparseable body is never handed back as
\* a payload, whatever its status: _handle_response raises the retry signal
\* for it and the request does not end successfully on it.
C12_EmptyBodyTransient ==
    \A o \in Ops :
        (handled[o].on /\ handled[o].r.body = "empty")
            => /\ handled[o].msg = "Empty JSON data"
               /\ result[o] # "ok"

\* The request ended on the response recorded in `handled`: nothing is in
\* flight or asleep, no refresh runs, the response was the one to the last
\* send, and every send before it had failed transiently.
EndedOnResponse(o) ==
    /\ stack[o] = <<>>
    /\ result[o] \in {"fatal", "refresh_failed"}
    /\ sends[o] = handled[o].at
    /\ fails[o] = sends[o] - 1

\* C13: a response with error invalid_account_or_password ends the logical
\* request with PikpakException("Invalid username or password") at once: no
\* further send, no backoff, no refresh, error_code 16 or not.
C13_InvalidCredentialsFatal ==
    \A o \in Ops :
        (handled[o].on /\ handled[o].r.body = "json"
            /\ handled[o].r.error = "invalid_account_or_password")
            => /\ EndedOnResponse(o)
               /\ handled[o].msg = "Invalid username or password"

C13_Witness ==
    /\ handled[1].on
    /\ handled[1].r.error = "invalid_account_or_password"
    /\ handled[1].r.code = 16
    /\ result[1] = "fatal"
    /\ sends[1] = 1
    /\ access_token = issued

\* C14: a response with an error that is neither invalid credentials nor
\* expiry ends the logical request at once with a PikpakException that
\* carries the error_description of the response.
C14_DomainErrorFatal ==
    \A o \in Ops :
        (handled[o].on /\ handled[o].r.body = "json"
            /\ handled[o].r.error = "other" /\ handled[o].r.code # 16)
            => /\ EndedOnResponse(o)
               /\ handled[o].r.error_description # "none"
                    => handled[o].msg = handled[o].r.error_description

C14_Witness ==
    /\ handled[1].on
    /\ handled[1].r.error = "other"
    /\ handled[1].r.code # 16
    /\ handled[1].r.error_description = "file not found"
    /\ handled[1].msg = "file not found"
    /\ result[1] = "fatal"
    /\ sends[1] = 1

\* ========================================================================
\* Properties of file_move_or_copy_by_path (specification SpecMove)
\* ========================================================================

\* C15: the batch request names as sources only the last ids of fully
\* resolved source paths, and as destination the last id of the fully
\* resolved to_path (the root for a to_path without segments).
C15_OnlyFullyResolved ==
    mv.pc \in {"batch", "done"} =>
        /\ \A n \in 1..Len(mv.from_ids) :
              \E j \in 1..Len(mv.from_path) :
                  mv.from_ids[n] = SegId(j, mv.from_path[j])
        /\ mv.to_parent_id =
              IF mv.to_path = 0 THEN None ELSE SegId(0, mv.to_path)

\* ========================================================================
\* Properties of the operations (specification SpecTask)
\* ========================================================================

\* C16: an operation one of whose requests ended in a PikpakException raises
\* to its caller; it does not return a value.
C16_NoSwallowedError ==
    task.failed => task.pc = "raised"

\* ========================================================================
\* Properties of concurrent path_to_id calls (specification SpecConc)
\* ========================================================================

\* C17: the id cached under a key is the id every later lookup of the key
\* sees: no step of a call replaces the record of a key by a record with
\* another id.
C17_NoConflictingWrites ==
    [][\A k \in DOMAIN cache :
          k \in DOMAIN cache' /\ cache'[k].id = cache[k].id]_vars

\* C18: two calls with create=True for the same path, of which exactly the
\* last segment was missing when the first of them started, create one
\* folder between them.
C18_OneFolderCreated ==
    ( /\ \A p \in Procs : procs[p].pc = "done" /\ procs[p].ret = "resolved"
                           /\ procs[p].create /\ procs[p].missing <= 1
      /\ procs[1].paths = procs[2].paths
      /\ \E p \in Procs : procs[p].missing = 1 )
    => nextId = 21 + 1

\* C19: with several operations of one client refreshing at the same time, at
\* every suspension point the stored access token and the stored refresh token
\* come from one and the same login or refresh response, and once a refresh
\* response has been processed the stored pair is the pair of the response
\* processed last.
C19_TokenPairFromOneResponse ==
    /\ access_token = refresh_token
    /\ latest # None => (access_token = latest /\ refresh_token = latest)

\* C20: over any sequence of path_to_id calls, trash, delete, rename, move,
\* copy and listing operations of the client, no step removes a key from the
\* path cache, and a step adds keys only when path_to_id handles the response
\* to its file_list (keys of entries below the resolved prefix) or to its
\* create_folder (the key of the segment created).
C20_CacheKeysOnlyGrow ==
    [][/\ DOMAIN cache \subseteq DOMAIN cache'
       /\ DOMAIN cache' # DOMAIN cache =>
            /\ pc \in {"list", "create"}
            /\ ret' # "raised"
            /\ \A k \in DOMAIN cache' \ DOMAIN cache :
                  /\ Len(k) = count + 1
                  /\ Prefix(k, count) = Prefix(paths, count)
                  /\ pc = "create" => k = Prefix(paths, count + 1)]_vars

\* A key is still cached after its entry was trashed or deleted: no entry
\* of the drive has the id of its record.
C20_Witness ==
    /\ \E k \in DOMAIN cache : cache[k].id \notin RemoteIds(children)
    /\ BetweenCalls
    /\ calls > 0

\* C21: when path_to_id has scanned a listing page of the folder at prefix P,
\* every entry of the page, whether it matches the target segment or not, is
\* cached under P/<name> with its id, its name and its file type.
C21_EveryEntryCached ==
    reply.seen =>
        \A i \in DOMAIN reply.files :
            LET f == reply.files[i]
                k == Append(reply.prefix, f.name)
            IN  k \in DOMAIN cache /\ cache[k] = Record(f)

\* The last entry of the page that has the name of entry i.
LastNamed(files, i) ==
    files[CHOOSE j \in DOMAIN files :
            /\ files[j].name = files[i].name
            /\ \A m \in DOMAIN files : files[m].name = files[i].name => m <= j]

\* C21, amended: when path_to_id has scanned a listing page of the folder at
\* prefix P, every name on the page, whether it is the target segment or not,
\* is cached under P/<name> with the id, the name and the file type of the
\* last entry of the page that has the name.
C21_LastOfNameCached ==
    reply.seen =>
        \A i \in DOMAIN reply.files :
            LET f == LastNamed(reply.files, i)
                k == Append(reply.prefix, f.name)
            IN  k \in DOMAIN cache /\ cache[k] = Record(f)

\* A page with an entry that is not the target segment has been scanned, and
\* that entry is cached.
C21_Witness ==
    /\ reply.seen
    /\ \E i \in DOMAIN reply.files :
          /\ reply.files[i].name # paths[Len(reply.prefix) + 1]
          /\ Append(reply.prefix, reply.files[i].name) \in DOMAIN cache

\* The depth of the longest prefix of ps that is a key of the cache (0: none).
LongestCachedPrefix(c, ps) ==
    CHOOSE k \in 0..Len(ps) :
        /\ k = 0 \/ Prefix(ps, k) \in DOMAIN c
        /\ \A j \in (k + 1)..Len(ps) : Prefix(ps, j) \notin DOMAIN c

\* C22: a path_to_id call starts from the longest cached prefix of its path.
\* With k the depth of that prefix, the chain the call holds before its first
\* request is the cached records of the prefixes of depth 1..k; with k segments
\* in all it returns that chain, and otherwise its first request is the
\* listing of the folder cached for the prefix of depth k (of the root when k
\* is 0).
C22_ResumeFromLongestPrefix ==
    [][calls' = calls + 1 =>
         LET k == LongestCachedPrefix(cache, paths') IN
         /\ path_ids' = [i \in 1..k |-> cache[Prefix(paths', i)]]
         /\ IF k = Len(paths')
            THEN pc' = "done" /\ ret' = "hit" /\ req' = NoReq
            ELSE /\ pc' = "list"
                 /\ req' = ListReq(IF k = 0 THEN None
                                   ELSE cache[Prefix(paths', k)].id, NoToken)]_vars

\* A call has started below a cached prefix that is not the whole path: it
\* holds the cached records and awaits the listing of the last one's folder.
C22_Witness ==
    /\ pc = "list"
    /\ ~reply.seen
    /\ path_ids # <<>>
    /\ Len(path_ids) < Len(paths)
    /\ count = Len(path_ids)
    /\ LongestCachedPrefix(cache, paths) = count
    /\ req = ListReq(cache[Prefix(paths, count)].id, NoToken)

\* A path string without a segment: it holds separators and blanks only (the
\* empty string included).
NoSegments(p) == \A i \in DOMAIN p : p[i] \in {"/", " "}

\* C23: path_to_id called with an empty path, or with a path that has no
\* segments, returns an empty chain: it does not raise, it sends no request
\* and the cache is as it was.
C23_NoSegmentsNoRequest ==
    (pc \in {"list", "done"} /\ NoSegments(path)) =>
        /\ pc = "done"
        /\ ret = "resolved"
        /\ path_ids = <<>>
        /\ req = NoReq
        /\ ~listed
        /\ cache = <<>>

\* C24: access_token, refresh_token and user_id change only in a step in
\* which login or refresh_access_token takes the response to its request;
\* no step of another operation, and no step of an operation that has not
\* run into a refresh, changes one of the three.
C24_TokensChangeInLoginOrRefresh ==
    [][<<access_token, refresh_token, user_id>>' # <<access_token, refresh_token, user_id>> =>
         \E o \in Ops :
            /\ Depth(o) >= 1
            /\ Top(o).pc = "await"
            /\ Top(o).kind \in {"login", "refresh"}
            /\ Len(stack'[o]) < Depth(o)]_vars

\* login has stored the token pair and the user id of its response.
C24_Witness ==
    /\ result[1] = "ok"
    /\ lastMsg[1].kind = "login"
    /\ access_token = issued
    /\ refresh_token = issued
    /\ user_id = "user"

\* An encoded_token that does not decode to a JSON object with a non-empty
\* access_token and a non-empty refresh_token.
Undecodable(e) ==
    \/ e.b64 # "ok"
    \/ ~e.utf8
    \/ e.json # "object"
    \/ e.access_token = None
    \/ e.refresh_token = None

\* C25: constructing a client without an encoded_token and without both a
\* username and a password raises PikpakException, and so does constructing
\* it with an encoded_token that cannot be decoded or parsed or that lacks a
\* non-empty access_token or refresh_token.
C25_ConfigurationErrorRaised ==
    (ctor.outcome # "none" /\ ctor.exported = <<>>) =>
        /\ (ctor.encoded_token = Absent
              /\ ~(Truthy(ctor.username) /\ Truthy(ctor.password)))
            => ctor.outcome = "PikpakException"
        /\ (ctor.encoded_token # Absent /\ Undecodable(ctor.encoded_token))
            => ctor.outcome = "PikpakException"

C27_BackoffDoubles ==
    \A o \in Ops :
        (Depth(o) >= 1 /\ stack[o][1].pc = "sleep") =>
            /\ fails[o] >= 1
            /\ stack[o][1].delay = initial_backoff * (2 ^ (fails[o] - 1))

\* A logical request is in the delay after its second failed attempt, which
\* is twice the initial backoff.
C27_Witness ==
    /\ Depth(1) = 1
    /\ stack[1][1].pc = "sleep"
    /\ fails[1] = 2
    /\ stack[1][1].delay = 2 * initial_backoff

\* C28: a request is delayed only between two of its attempts: a frame of
\* _make_request is in asyncio.sleep only when its loop has another attempt
\* to make, so that N failed attempts take at most N - 1 delays and the
\* terminal error follows the last failed attempt without a delay.
C28_DelayOnlyBetweenAttempts ==
    \A o \in Ops : \A d \in 1..Depth(o) :
        stack[o][d].pc = "sleep" => stack[o][d].attempt + 1 < max_retries

\* C29: in every reachable state the path cache is prefix-closed: with a key,
\* the key of each of its leading segments is cached too.  The number of
\* prefixes of a path found in the cache is therefore the depth of its
\* deepest cached prefix.
C29_CachePrefixClosed ==
    /\ \A k \in DOMAIN cache : \A i \in 1..Len(k) : Prefix(k, i) \in DOMAIN cache
    /\ \A ps \in Paths :
          Len(CacheHits(cache, ps, 1)) = LongestCachedPrefix(cache, ps)

\* The cache holds keys written by the scan of a listing below the root and
\* by a folder creation, and a path is cached down to a prefix of its own.
C29_Witness ==
    /\ created # <<>>
    /\ reply.seen /\ reply.prefix # <<>> /\ reply.files # <<>>
    /\ \E k \in DOMAIN cache : Len(k) = MaxDepth
    /\ \E ps \in Paths :
          /\ LongestCachedPrefix(cache, ps) > 0
          /\ LongestCachedPrefix(cache, ps) < Len(ps)

\* C30: with create=True and no request error, whatever the number of
\* remotely missing segments, path_to_id returns one record per segment and
\* makes one create_folder call per segment from the first remotely missing
\* one to the last; no create_folder call is made for a segment that the
\* listing of its parent holds, on whatever page.
C30_CreateFromFirstMissing ==
    /\ (Returned /\ create /\ honest /\ start.agree)
        => /\ Len(path_ids) = Len(paths)
           /\ Len(created) = Len(paths) - Len(start.remote)
           /\ \A i \in 1..Len(created) :
                 created[i][1] = paths[Len(start.remote) + i]
    /\ (pc = "create" /\ honest /\ start.agree)
        => \A i \in DOMAIN ChildrenOf(children, req.parent_id) :
              ChildrenOf(children, req.parent_id)[i].name # req.name

\* C31: path_to_id terminates whenever every listing response is finite and
\* the continuation tokens come from a finite set: a call that awaits a
\* listing or a folder creation has returned (or raised) some time later,
\* also when the server's tokens keep differing from the token just sent.
C31_PathToIdTerminates ==
    [](pc \in {"list", "create"} => <>(pc = "done"))

\* ========================================================================
\* Properties of the captcha token (specification SpecCaptcha)
\* ========================================================================

\* C32: whenever a file_list or get_download_url call has finished, returned
\* or raised, and no operation is running on the client, captcha_token is
\* None.
C32_CaptchaTokenCleared ==
    (/\ \A p \in Procs : caps[p].pc \in {"idle", "done"}
     /\ \E p \in Procs : caps[p].pc = "done" /\ caps[p].kind \in CaptchaKinds)
    => captcha_token = None

\* C33: under every interleaving, the request of a file_list or
\* get_download_url call, at each of its attempts, carries the captcha token
\* the call obtained, and no request of another kind (a captcha_init, the
\* request of another operation) carries a captcha token.
C33_CaptchaTokenOwnRequest ==
    \A p \in Procs :
        caps[p].msg.kind # "none" =>
            caps[p].msg.headers[1].X_Captcha_Token =
                IF caps[p].msg.kind = "request" THEN caps[p].token ELSE None

\* ========================================================================
\* Properties of login and refresh_access_token (specification SpecCred)
\* ========================================================================

\* C34: after a login or refresh_access_token call that raised,
\* access_token, refresh_token, user_id and encoded_token are as the call
\* found them.
C34_NoPartialUpdate ==
    (cred.pc = "done" /\ cred.how # "returned") => Credential = cred.before

\* C35: once a login or refresh_access_token call has returned normally, and
\* on a client built from an encoded_token that has made no such call,
\* decoding encoded_token yields the stored access_token and refresh_token.
C35_BundleMatchesTokens ==
    (cred.ok \/ (cred.op = "none" /\ encoded_token # Absent))
    => /\ decode_token(encoded_token).exc = "none"
       /\ decode_token(encoded_token).access_token = access_token
       /\ decode_token(encoded_token).refresh_token = refresh_token

\* C36: a chain returned by path_to_id is no longer than the path has
\* segments, its i-th record is named like the i-th segment, and (calls being
\* made one after the other) each record is the one cached under the key of
\* the first i segments.
C36_ChainMatchesSegments ==
    Returned =>
        /\ Len(path_ids) <= Len(paths)
        /\ \A i \in 1..Len(path_ids) :
              /\ path_ids[i].name = paths[i]
              /\ Prefix(paths, i) \in DOMAIN cache
              /\ cache[Prefix(paths, i)] = path_ids[i]

\* A call that found part of its path in the cache has listed a folder,
\* created the last segment and returned one record per segment.
C36_Witness ==
    /\ Returned /\ ret = "resolved"
    /\ Len(path_ids) = MaxDepth
    /\ ~start.cold /\ listed /\ Len(created) = 1
    /\ \A i \in 1..Len(path_ids) : cache[Prefix(paths, i)] = path_ids[i]

\* ========================================================================
\* Properties of the legacy clients (specification SpecLegacy)
\* ========================================================================

\* C37: in the synchronous client, the request sent after the re-login that
\* follows an auth-expiry response carries the arguments the caller passed,
\* and the value returned by a call that retried is the answer to those
\* arguments.
C37_RetryKeepsArguments ==
    (legacy.op \in SyncOps /\ legacy.retry) =>
        /\ legacy.pc = "request" => legacy.sent = legacy.args
        /\ (legacy.pc = "done" /\ legacy.how = "returned")
              => legacy.value = legacy.args

\* C38: every call of an operation of a legacy client ends, however often
\* the server reports auth-expiry.
C38_ExpiryHandlingTerminates ==
    [](legacy.pc \in {"request", "login"} => <>(legacy.pc = "done"))

============================================================================
